---- MODULE Spec2Model ----
(***************************************************************************)
(* A model of the doublell DoubleLinkedList (src/src/DoubleLinkedList/     *)
(* index.ts).  The file holds two implementations of the same public API:  *)
(* the class-node list with a cached toArray (lines 38-884) and the        *)
(* tuple-node list without a cache (lines 923-1804).  Both are modelled;   *)
(* the field heap.impl says which one a behaviour runs.                    *)
(*                                                                         *)
(* The heap is a record:                                                   *)
(*   nodes   sequence of node objects, a node's identity is its position   *)
(*           (objects are never reused, so allocation appends)             *)
(*   lists   sequence of list objects, identity likewise                   *)
(*   removed history of the nodes a remove() has detached                  *)
(*   crashed TRUE once an operation dereferenced undefined (a TypeError)   *)
(* Every operation is an operator from a heap (and arguments) to           *)
(* [w |-> the heap afterwards, ret |-> the value returned].                *)
(***************************************************************************)
EXTENDS Integers, Sequences, FiniteSets, TLC

VARIABLES
    heap,   \* the objects there are
    call,   \* the last call recorded with its arguments, its result and the heap before it
    fifo,   \* the values pushed on, and shifted from, a list used as a queue
    iter,   \* the iterators made, each with its cursor and the results it has returned
    lru,    \* the LRU cache of the README built on a list: its map and its capacity
    manager \* the undo/redo manager of the README: its history list and current node

vars == <<heap, call, fifo, iter, lru, manager>>

\* ---------------------------------------------------------------- bounds
\* Nodes ever allocated in one behaviour.
MaxNodes == 3
\* Lists ever allocated in one behaviour.
MaxLists == 2
\* Items handed to one constructor or splice call.
MaxItems == 2
\* Values pushed on the list used as a queue.
MaxPushes == 4
\* Values of the longest list getNodeAt is called on.
MaxLength == 5
\* Nodes the history of an undo/redo manager and the lists its splice calls return
\* allocate in one behaviour.
MaxHistory == 6
\* The largest capacity an LRU cache is made with.
MaxCapacity == 3
\* Nodes the list of an LRU cache allocates in one behaviour.
MaxCached == 6

Values == {"a", "b"}
Impls == {"class", "tuple"}

\* undefined, as a node or list reference
None == 0

\* undefined / a defined value v, for results and for the cached array
Undefined == <<>>
Some(v) == <<v>>

Items == UNION {[1..k -> Values] : k \in 0..MaxItems}

Max(a, b) == IF a >= b THEN a ELSE b
Min(a, b) == IF a <= b THEN a ELSE b

\* ---------------------------------------------------------------- objects
DoubleLinkedListNode(list, value, previousNode, nextNode) ==
    [list |-> list, value |-> value, previousNode |-> previousNode, nextNode |-> nextNode]

DoubleLinkedList ==
    [allValues |-> Undefined, firstNode |-> None, lastNode |-> None, length |-> 0]

EmptyHeap(impl) ==
    [impl |-> impl, nodes |-> <<>>, lists |-> <<>>, removed |-> {}, crashed |-> FALSE]

NodeIds(w) == 1..Len(w.nodes)
ListIds(w) == 1..Len(w.lists)

\* new DoubleLinkedListNode(...) / a tuple literal: the new object's identity is
\* Len(w.nodes) + 1
allocNode(w, list, value, previousNode, nextNode) ==
    [w EXCEPT !.nodes = Append(@, DoubleLinkedListNode(list, value, previousNode, nextNode))]

\* new DoubleLinkedList(): the new object's identity is Len(w.lists) + 1
allocList(w) == [w EXCEPT !.lists = Append(@, DoubleLinkedList)]

\* Field writes through a reference; writing through undefined throws.
setPrevious(w, n, v) ==
    IF w.crashed THEN w
    ELSE IF n = None THEN [w EXCEPT !.crashed = TRUE]
    ELSE [w EXCEPT !.nodes[n].previousNode = v]

setNext(w, n, v) ==
    IF w.crashed THEN w
    ELSE IF n = None THEN [w EXCEPT !.crashed = TRUE]
    ELSE [w EXCEPT !.nodes[n].nextNode = v]

setOwner(w, n, v) ==
    IF w.crashed THEN w
    ELSE IF n = None THEN [w EXCEPT !.crashed = TRUE]
    ELSE [w EXCEPT !.nodes[n].list = v]

setFirst(w, l, v) == IF w.crashed THEN w ELSE [w EXCEPT !.lists[l].firstNode = v]
setLast(w, l, v) == IF w.crashed THEN w ELSE [w EXCEPT !.lists[l].lastNode = v]
setLength(w, l, v) == IF w.crashed THEN w ELSE [w EXCEPT !.lists[l].length = v]
invalidate(w, l) == IF w.crashed THEN w ELSE [w EXCEPT !.lists[l].allValues = Undefined]

\* ---------------------------------------------------------------- class-node list
\* append with the bug of leaving lastNode as it was when the list is not empty
append_class_staleTail(w, l, item) ==
    LET newNode == Len(w.nodes) + 1
        w0 == allocNode(w, l, item, None, None)
        w1 == IF w0.lists[l].firstNode = None
              THEN setLast(setFirst(w0, l, newNode), l, newNode)
              ELSE LET a == setPrevious(w0, newNode, w0.lists[l].lastNode)
                   IN setNext(a, a.lists[l].lastNode, newNode)
        w2 == invalidate(w1, l)
    IN [w |-> setLength(w2, l, w2.lists[l].length + 1), ret |-> newNode]

\* index.ts 108-124
append_class(w, l, item) ==
    LET newNode == Len(w.nodes) + 1
        w0 == allocNode(w, l, item, None, None)
        w1 == IF w0.lists[l].firstNode = None
              THEN setLast(setFirst(w0, l, newNode), l, newNode)
              ELSE LET a == setPrevious(w0, newNode, w0.lists[l].lastNode)
                       b == setNext(a, a.lists[l].lastNode, newNode)
                   IN setLast(b, l, newNode)
        w2 == invalidate(w1, l)
    IN [w |-> setLength(w2, l, w2.lists[l].length + 1), ret |-> newNode]

\* prepend with the bug of not linking the new node to the old head
prepend_class_noNext(w, l, item) ==
    LET newNode == Len(w.nodes) + 1
        w0 == allocNode(w, l, item, None, None)
        w1 == IF w0.lists[l].firstNode = None
              THEN setLast(setFirst(w0, l, newNode), l, newNode)
              ELSE LET b == setPrevious(w0, w0.lists[l].firstNode, newNode)
                   IN setFirst(b, l, newNode)
        w2 == invalidate(w1, l)
    IN [w |-> setLength(w2, l, w2.lists[l].length + 1), ret |-> newNode]

\* prepend with the bug of keeping the cached array
prepend_class_keepsCache(w, l, item) ==
    LET newNode == Len(w.nodes) + 1
        w0 == allocNode(w, l, item, None, None)
        w1 == IF w0.lists[l].firstNode = None
              THEN setLast(setFirst(w0, l, newNode), l, newNode)
              ELSE LET a == setNext(w0, newNode, w0.lists[l].firstNode)
                       b == setPrevious(a, a.lists[l].firstNode, newNode)
                   IN setFirst(b, l, newNode)
    IN [w |-> setLength(w1, l, w1.lists[l].length + 1), ret |-> newNode]

\* index.ts 140-156
prepend_class(w, l, item) ==
    LET newNode == Len(w.nodes) + 1
        w0 == allocNode(w, l, item, None, None)
        w1 == IF w0.lists[l].firstNode = None
              THEN setLast(setFirst(w0, l, newNode), l, newNode)
              ELSE LET a == setNext(w0, newNode, w0.lists[l].firstNode)
                       b == setPrevious(a, a.lists[l].firstNode, newNode)
                   IN setFirst(b, l, newNode)
        w2 == invalidate(w1, l)
    IN [w |-> setLength(w2, l, w2.lists[l].length + 1), ret |-> newNode]

\* The tail of remove with the bug of leaving the node's owner set
detach_keepsOwner(w, l, node) ==
    LET w1 == setNext(setPrevious(w, node, None), node, None)
        w2 == invalidate(w1, l)
        w3 == setLength(w2, l, w2.lists[l].length - 1)
    IN IF w3.crashed THEN w3 ELSE [w3 EXCEPT !.removed = @ \cup {node}]

\* The tail of remove with the bug of leaving the node's next pointer set
detach_keepsNext(w, l, node) ==
    LET w1 == setOwner(setPrevious(w, node, None), node, None)
        w2 == invalidate(w1, l)
        w3 == setLength(w2, l, w2.lists[l].length - 1)
    IN IF w3.crashed THEN w3 ELSE [w3 EXCEPT !.removed = @ \cup {node}]

\* The tail of remove, common to every branch that removes (index.ts 286-291):
\* the node's three references are cleared and the length counted down.  The
\* history heap.removed records the node as removed.
detach(w, l, node) ==
    LET w1 == setOwner(setNext(setPrevious(w, node, None), node, None), node, None)
        w2 == invalidate(w1, l)
        w3 == setLength(w2, l, w2.lists[l].length - 1)
    IN IF w3.crashed THEN w3 ELSE [w3 EXCEPT !.removed = @ \cup {node}]

\* remove with the bug of not pointing the successor of a middle node back at its
\* predecessor
remove_class_halfUnlinked(w, l, node) ==
    IF w.nodes[node].list # l THEN [w |-> w, ret |-> FALSE]
    ELSE
      LET w1 == IF node = w.lists[l].firstNode
                THEN LET a == setFirst(w, l, w.nodes[node].nextNode)
                     IN IF a.lists[l].firstNode # None
                        THEN setPrevious(a, a.lists[l].firstNode, None)
                        ELSE setLast(a, l, None)
                ELSE IF node = w.lists[l].lastNode
                THEN LET a == setLast(w, l, w.nodes[node].previousNode)
                     IN IF a.lists[l].lastNode # None
                        THEN setNext(a, a.lists[l].lastNode, None)
                        ELSE setFirst(a, l, None)
                ELSE setNext(w, w.nodes[node].previousNode, w.nodes[node].nextNode)
      IN [w |-> detach(w1, l, node), ret |-> TRUE]

\* remove with the bug of not checking the owner of the node
remove_class_noOwnerCheck(w, l, node) ==
    LET w1 == IF node = w.lists[l].firstNode
              THEN LET a == setFirst(w, l, w.nodes[node].nextNode)
                   IN IF a.lists[l].firstNode # None
                      THEN setPrevious(a, a.lists[l].firstNode, None)
                      ELSE setLast(a, l, None)
              ELSE IF node = w.lists[l].lastNode
              THEN LET a == setLast(w, l, w.nodes[node].previousNode)
                   IN IF a.lists[l].lastNode # None
                      THEN setNext(a, a.lists[l].lastNode, None)
                      ELSE setFirst(a, l, None)
              ELSE LET a == setNext(w, w.nodes[node].previousNode, w.nodes[node].nextNode)
                   IN setPrevious(a, a.nodes[node].nextNode, a.nodes[node].previousNode)
    IN [w |-> detach(w1, l, node), ret |-> TRUE]

\* index.ts 256-294
remove_class(w, l, node) ==
    IF w.nodes[node].list # l THEN [w |-> w, ret |-> FALSE]
    ELSE
      LET w1 == IF node = w.lists[l].firstNode
                THEN LET a == setFirst(w, l, w.nodes[node].nextNode)
                     IN IF a.lists[l].firstNode # None
                        THEN setPrevious(a, a.lists[l].firstNode, None)
                        ELSE setLast(a, l, None)
                ELSE IF node = w.lists[l].lastNode
                THEN LET a == setLast(w, l, w.nodes[node].previousNode)
                     IN IF a.lists[l].lastNode # None
                        THEN setNext(a, a.lists[l].lastNode, None)
                        ELSE setFirst(a, l, None)
                ELSE LET a == setNext(w, w.nodes[node].previousNode, w.nodes[node].nextNode)
                     IN setPrevious(a, a.nodes[node].nextNode, a.nodes[node].previousNode)
      IN [w |-> detach(w1, l, node), ret |-> TRUE]

\* insertAfterNode with the bug of not pointing the former successor back at the new
\* node
insertAfterNode_class_noBackLink(w, l, node, item) ==
    IF w.nodes[node].list # l THEN [w |-> w, ret |-> None]
    ELSE
      LET newNode == Len(w.nodes) + 1
          w0 == allocNode(w, l, item, None, None)
          w1 == IF w0.lists[w0.nodes[node].list].lastNode = node
                THEN setLast(w0, l, newNode) ELSE w0
          w2 == setPrevious(w1, newNode, node)
          w3 == IF w2.nodes[node].nextNode # None
                THEN setNext(w2, newNode, w2.nodes[node].nextNode)
                ELSE w2
          w4 == setNext(w3, node, newNode)
          w5 == invalidate(w4, l)
      IN [w |-> setLength(w5, l, w5.lists[l].length + 1), ret |-> newNode]

\* insertAfterNode with the bug of leaving lastNode as it was after an insertion at
\* the tail
insertAfterNode_class_staleTail(w, l, node, item) ==
    IF w.nodes[node].list # l THEN [w |-> w, ret |-> None]
    ELSE
      LET newNode == Len(w.nodes) + 1
          w0 == allocNode(w, l, item, None, None)
          w2 == setPrevious(w0, newNode, node)
          w3 == IF w2.nodes[node].nextNode # None
                THEN LET a == setNext(w2, newNode, w2.nodes[node].nextNode)
                     IN setPrevious(a, a.nodes[node].nextNode, newNode)
                ELSE w2
          w4 == setNext(w3, node, newNode)
          w5 == invalidate(w4, l)
      IN [w |-> setLength(w5, l, w5.lists[l].length + 1), ret |-> newNode]

\* insertAfterNode with the bug of accepting a node that has no owner as well as a
\* node of this list
insertAfterNode_class_acceptsRemoved(w, l, node, item) ==
    IF w.nodes[node].list # l /\ w.nodes[node].list # None THEN [w |-> w, ret |-> None]
    ELSE
      LET newNode == Len(w.nodes) + 1
          w0 == allocNode(w, l, item, None, None)
          w1 == IF w0.lists[l].lastNode = node
                THEN setLast(w0, l, newNode) ELSE w0
          w2 == setPrevious(w1, newNode, node)
          w3 == IF w2.nodes[node].nextNode # None
                THEN LET a == setNext(w2, newNode, w2.nodes[node].nextNode)
                     IN setPrevious(a, a.nodes[node].nextNode, newNode)
                ELSE w2
          w4 == setNext(w3, node, newNode)
          w5 == invalidate(w4, l)
      IN [w |-> setLength(w5, l, w5.lists[l].length + 1), ret |-> newNode]

\* index.ts 314-338
insertAfterNode_class(w, l, node, item) ==
    IF w.nodes[node].list # l THEN [w |-> w, ret |-> None]
    ELSE
      LET newNode == Len(w.nodes) + 1
          w0 == allocNode(w, l, item, None, None)
          w1 == IF w0.lists[w0.nodes[node].list].lastNode = node
                THEN setLast(w0, l, newNode) ELSE w0
          w2 == setPrevious(w1, newNode, node)
          w3 == IF w2.nodes[node].nextNode # None
                THEN LET a == setNext(w2, newNode, w2.nodes[node].nextNode)
                     IN setPrevious(a, a.nodes[node].nextNode, newNode)
                ELSE w2
          w4 == setNext(w3, node, newNode)
          w5 == invalidate(w4, l)
      IN [w |-> setLength(w5, l, w5.lists[l].length + 1), ret |-> newNode]

\* insertBeforeNode with the bug of not checking the owner of the node
insertBeforeNode_class_noOwnerCheck(w, l, node, item) ==
    IF w.nodes[node].list = None THEN [w |-> [w EXCEPT !.crashed = TRUE], ret |-> None]
    ELSE
      LET newNode == Len(w.nodes) + 1
          w0 == allocNode(w, l, item, None, None)
          w1 == IF w0.lists[w0.nodes[node].list].firstNode = node
                THEN setFirst(w0, l, newNode) ELSE w0
          w2 == setNext(w1, newNode, node)
          w3 == IF w2.nodes[node].previousNode # None
                THEN LET a == setPrevious(w2, newNode, w2.nodes[node].previousNode)
                     IN setNext(a, a.nodes[node].previousNode, newNode)
                ELSE w2
          w4 == setPrevious(w3, node, newNode)
          w5 == invalidate(w4, l)
      IN [w |-> setLength(w5, l, w5.lists[l].length + 1), ret |-> newNode]

\* index.ts 358-385
insertBeforeNode_class(w, l, node, item) ==
    IF w.nodes[node].list # l THEN [w |-> w, ret |-> None]
    ELSE
      LET newNode == Len(w.nodes) + 1
          w0 == allocNode(w, l, item, None, None)
          w1 == IF w0.lists[w0.nodes[node].list].firstNode = node
                THEN setFirst(w0, l, newNode) ELSE w0
          w2 == setNext(w1, newNode, node)
          w3 == IF w2.nodes[node].previousNode # None
                THEN LET a == setPrevious(w2, newNode, w2.nodes[node].previousNode)
                     IN setNext(a, a.nodes[node].previousNode, newNode)
                ELSE w2
          w4 == setPrevious(w3, node, newNode)
          w5 == invalidate(w4, l)
      IN [w |-> setLength(w5, l, w5.lists[l].length + 1), ret |-> newNode]

\* ---------------------------------------------------------------- tuple-node list
\* index.ts 996-1010
append_tuple(w, l, item) ==
    LET newNode == Len(w.nodes) + 1
        w0 == allocNode(w, l, item, w.lists[l].lastNode, None)
        w1 == IF w0.lists[l].length = 0
              THEN setFirst(w0, l, newNode)
              ELSE setNext(w0, w0.lists[l].lastNode, newNode)
        w2 == setLast(w1, l, newNode)
    IN [w |-> setLength(w2, l, w2.lists[l].length + 1), ret |-> newNode]

\* prepend with the bug of not counting the new node
prepend_tuple_noCount(w, l, item) ==
    LET newNode == Len(w.nodes) + 1
        w0 == allocNode(w, l, item, None, w.lists[l].firstNode)
        w1 == IF w0.lists[l].length = 0
              THEN setLast(w0, l, newNode)
              ELSE setPrevious(w0, w0.lists[l].firstNode, newNode)
    IN [w |-> setFirst(w1, l, newNode), ret |-> newNode]

\* index.ts 1026-1040
prepend_tuple(w, l, item) ==
    LET newNode == Len(w.nodes) + 1
        w0 == allocNode(w, l, item, None, w.lists[l].firstNode)
        w1 == IF w0.lists[l].length = 0
              THEN setLast(w0, l, newNode)
              ELSE setPrevious(w0, w0.lists[l].firstNode, newNode)
        w2 == setFirst(w1, l, newNode)
    IN [w |-> setLength(w2, l, w2.lists[l].length + 1), ret |-> newNode]

\* remove with the bug of leaving firstNode set when the tail removed was the sole
\* node
remove_tuple_staleHead(w, l, node) ==
    IF node = w.lists[l].lastNode
    THEN LET newLast == w.nodes[node].previousNode
             a == setLast(w, l, newLast)
             b == IF newLast # None THEN setNext(a, newLast, None) ELSE a
         IN [w |-> detach(b, l, node), ret |-> TRUE]
    ELSE IF node = w.lists[l].firstNode
    THEN LET newFirst == w.nodes[node].nextNode
             a == setFirst(w, l, newFirst)
             b == IF newFirst # None THEN setPrevious(a, newFirst, None) ELSE setLast(a, l, None)
         IN [w |-> detach(b, l, node), ret |-> TRUE]
    ELSE IF w.nodes[node].list # l THEN [w |-> w, ret |-> FALSE]
    ELSE LET prev == w.nodes[node].previousNode
             next == w.nodes[node].nextNode
             a == setNext(w, prev, next)
             b == setPrevious(a, next, prev)
         IN [w |-> detach(b, l, node), ret |-> TRUE]

\* remove with the bug of not checking the owner at all
remove_tuple_noOwnerCheck(w, l, node) ==
    IF node = w.lists[l].lastNode
    THEN LET newLast == w.nodes[node].previousNode
             a == setLast(w, l, newLast)
             b == IF newLast # None THEN setNext(a, newLast, None) ELSE setFirst(a, l, None)
         IN [w |-> detach(b, l, node), ret |-> TRUE]
    ELSE IF node = w.lists[l].firstNode
    THEN LET newFirst == w.nodes[node].nextNode
             a == setFirst(w, l, newFirst)
             b == IF newFirst # None THEN setPrevious(a, newFirst, None) ELSE setLast(a, l, None)
         IN [w |-> detach(b, l, node), ret |-> TRUE]
    ELSE LET prev == w.nodes[node].previousNode
             next == w.nodes[node].nextNode
             a == setNext(w, prev, next)
             b == setPrevious(a, next, prev)
         IN [w |-> detach(b, l, node), ret |-> TRUE]

\* index.ts 1141-1183: the owner is checked in the middle branch only
remove_tuple(w, l, node) ==
    IF node = w.lists[l].lastNode
    THEN LET newLast == w.nodes[node].previousNode
             a == setLast(w, l, newLast)
             b == IF newLast # None THEN setNext(a, newLast, None) ELSE setFirst(a, l, None)
         IN [w |-> detach(b, l, node), ret |-> TRUE]
    ELSE IF node = w.lists[l].firstNode
    THEN LET newFirst == w.nodes[node].nextNode
             a == setFirst(w, l, newFirst)
             b == IF newFirst # None THEN setPrevious(a, newFirst, None) ELSE setLast(a, l, None)
         IN [w |-> detach(b, l, node), ret |-> TRUE]
    ELSE IF w.nodes[node].list # l THEN [w |-> w, ret |-> FALSE]
    ELSE LET prev == w.nodes[node].previousNode
             next == w.nodes[node].nextNode
             a == setNext(w, prev, next)
             b == setPrevious(a, next, prev)
         IN [w |-> detach(b, l, node), ret |-> TRUE]

\* insertAfterNode with the bug of not checking the owner of the node
insertAfterNode_tuple_noOwnerCheck(w, l, node, item) ==
    IF w.lists[l].lastNode = node THEN append_tuple(w, l, item)
    ELSE
      LET newNode == Len(w.nodes) + 1
          w0 == allocNode(w, l, item, node, w.nodes[node].nextNode)
          w1 == setPrevious(w0, w0.nodes[node].nextNode, newNode)
          w2 == setNext(w1, node, newNode)
      IN [w |-> setLength(w2, l, w2.lists[l].length + 1), ret |-> newNode]

\* insertAfterNode with the bug of not handing an insertion after the tail to append:
\* lastNode is left as it was
insertAfterNode_tuple_staleTail(w, l, node, item) ==
    IF w.nodes[node].list # l THEN [w |-> w, ret |-> None]
    ELSE
      LET newNode == Len(w.nodes) + 1
          w0 == allocNode(w, l, item, node, w.nodes[node].nextNode)
          w1 == IF w0.nodes[node].nextNode # None
                THEN setPrevious(w0, w0.nodes[node].nextNode, newNode) ELSE w0
          w2 == setNext(w1, node, newNode)
      IN [w |-> setLength(w2, l, w2.lists[l].length + 1), ret |-> newNode]

\* index.ts 1203-1220
insertAfterNode_tuple(w, l, node, item) ==
    IF w.nodes[node].list # l THEN [w |-> w, ret |-> None]
    ELSE IF w.lists[l].lastNode = node THEN append_tuple(w, l, item)
    ELSE
      LET newNode == Len(w.nodes) + 1
          w0 == allocNode(w, l, item, node, w.nodes[node].nextNode)
          w1 == setPrevious(w0, w0.nodes[node].nextNode, newNode)
          w2 == setNext(w1, node, newNode)
      IN [w |-> setLength(w2, l, w2.lists[l].length + 1), ret |-> newNode]

\* insertBeforeNode with the bug of not handing an insertion before the head to
\* prepend
insertBeforeNode_tuple_noPrepend(w, l, node, item) ==
    IF w.nodes[node].list # l THEN [w |-> w, ret |-> None]
    ELSE
      LET newNode == Len(w.nodes) + 1
          w0 == allocNode(w, l, item, w.nodes[node].previousNode, node)
          w1 == setNext(w0, w0.nodes[node].previousNode, newNode)
          w2 == setPrevious(w1, node, newNode)
      IN [w |-> setLength(w2, l, w2.lists[l].length + 1), ret |-> newNode]

\* index.ts 1240-1257
insertBeforeNode_tuple(w, l, node, item) ==
    IF w.nodes[node].list # l THEN [w |-> w, ret |-> None]
    ELSE IF w.lists[l].firstNode = node THEN prepend_tuple(w, l, item)
    ELSE
      LET newNode == Len(w.nodes) + 1
          w0 == allocNode(w, l, item, w.nodes[node].previousNode, node)
          w1 == setNext(w0, w0.nodes[node].previousNode, newNode)
          w2 == setPrevious(w1, node, newNode)
      IN [w |-> setLength(w2, l, w2.lists[l].length + 1), ret |-> newNode]

\* ---------------------------------------------------------------- the public API
\* A call goes to the implementation the list object belongs to.
append(w, l, item) ==
    IF w.impl = "class" THEN append_class(w, l, item) ELSE append_tuple(w, l, item)

prepend(w, l, item) ==
    IF w.impl = "class" THEN prepend_class(w, l, item) ELSE prepend_tuple(w, l, item)

remove(w, l, node) ==
    IF w.impl = "class" THEN remove_class(w, l, node) ELSE remove_tuple(w, l, node)

insertAfterNode(w, l, node, item) ==
    IF w.impl = "class" THEN insertAfterNode_class(w, l, node, item)
    ELSE insertAfterNode_tuple(w, l, node, item)

insertBeforeNode(w, l, node, item) ==
    IF w.impl = "class" THEN insertBeforeNode_class(w, l, node, item)
    ELSE insertBeforeNode_tuple(w, l, node, item)

\* index.ts 58-62 / 940-946: the constructor appends the items in order, to the list
\* object new has just made
RECURSIVE appendAll(_, _, _, _)
appendAll(w, l, items, i) ==
    IF i > Len(items) \/ w.crashed THEN w
    ELSE appendAll(append(w, l, items[i]).w, l, items, i + 1)

\* The constructor with the bug of leaving out the last item
constructor_dropsLast(w, items) ==
    LET this == Len(w.lists) + 1
    IN [w |-> appendAll(allocList(w), this, SubSeq(items, 1, Len(items) - 1), 1), ret |-> this]

constructor(w, items) ==
    LET this == Len(w.lists) + 1
    IN [w |-> appendAll(allocList(w), this, items, 1), ret |-> this]

\* index.ts 92 / 978-980
isEmpty(w, l) == w.lists[l].firstNode = None

\* index.ts 76 / 960-962
getLength(w, l) == w.lists[l].length

\* index.ts 190 / 1074-1076 and 204 / 1091-1093
getHead(w, l) == w.lists[l].firstNode
getTail(w, l) == w.lists[l].lastNode

\* index.ts 171-175 / 1055-1059.  The loop runs while firstNode is defined; a loop
\* that has run once more than there are nodes will never end, which the model
\* records as crashed.
RECURSIVE clearLoop(_, _, _)
clearLoop(w, l, fuel) ==
    IF w.crashed \/ w.lists[l].firstNode = None THEN w
    ELSE IF fuel = 0 THEN [w EXCEPT !.crashed = TRUE]
    ELSE clearLoop(remove(w, l, w.lists[l].firstNode).w, l, fuel - 1)

\* clear with the bug of removing the head once, not until the list is empty
clear_removesOnce(w, l) ==
    IF w.lists[l].firstNode = None THEN [w |-> w, ret |-> Undefined]
    ELSE [w |-> remove(w, l, w.lists[l].firstNode).w, ret |-> Undefined]

clear(w, l) == [w |-> clearLoop(w, l, Len(w.nodes) + 1), ret |-> Undefined]

\* The loop of toArray (index.ts 225-230 / 1110-1117): the values met from cursor
\* by following nextNode.  A chain longer than the nodes there are is a cycle, and
\* the walk is cut there.
RECURSIVE valuesFrom(_, _, _)
valuesFrom(w, cursor, fuel) ==
    IF cursor = None \/ fuel = 0 THEN <<>>
    ELSE <<w.nodes[cursor].value>> \o valuesFrom(w, w.nodes[cursor].nextNode, fuel - 1)

\* index.ts 220-235: the cached array is returned when there is one, and otherwise
\* built, frozen and kept
toArray_class(w, l) ==
    IF w.lists[l].allValues # Undefined
    THEN [w |-> w, ret |-> w.lists[l].allValues[1]]
    ELSE LET output == valuesFrom(w, w.lists[l].firstNode, Len(w.nodes) + 1)
         IN [w |-> [w EXCEPT !.lists[l].allValues = Some(output)], ret |-> output]

\* index.ts 1109-1120: an array of this.length holes, filled from the chain (a
\* hole left unfilled reads as undefined)
toArray_tuple(w, l) ==
    LET vals == valuesFrom(w, w.lists[l].firstNode, Len(w.nodes) + 1)
        n == Max(Len(vals), w.lists[l].length)
        output == [i \in 1..n |-> IF i <= Len(vals) THEN vals[i] ELSE "undefined"]
    IN [w |-> w, ret |-> output]

toArray(w, l) == IF w.impl = "class" THEN toArray_class(w, l) ELSE toArray_tuple(w, l)

\* index.ts 586-588 / 1458-1460 and 653-655 / 1525-1527
push(w, l, item) == append(w, l, item)
unshift(w, l, item) == prepend(w, l, item)

\* pop with the bug of returning the value of the head
pop_headValue(w, l) ==
    IF w.lists[l].lastNode = None THEN [w |-> w, ret |-> Undefined]
    ELSE LET value == w.nodes[w.lists[l].firstNode].value
         IN [w |-> remove(w, l, w.lists[l].lastNode).w, ret |-> Some(value)]

\* pop with the bug of removing the head
pop_removesHead(w, l) ==
    IF w.lists[l].lastNode = None THEN [w |-> w, ret |-> Undefined]
    ELSE LET value == w.nodes[w.lists[l].lastNode].value
         IN [w |-> remove(w, l, w.lists[l].firstNode).w, ret |-> Some(value)]

\* index.ts 604-612 / 1476-1484
pop(w, l) ==
    IF w.lists[l].lastNode = None THEN [w |-> w, ret |-> Undefined]
    ELSE LET value == w.nodes[w.lists[l].lastNode].value
         IN [w |-> remove(w, l, w.lists[l].lastNode).w, ret |-> Some(value)]

\* shift with the bug of taking the tail
shift_takesTail(w, l) ==
    IF w.lists[l].firstNode = None THEN [w |-> w, ret |-> Undefined]
    ELSE LET value == w.nodes[w.lists[l].lastNode].value
         IN [w |-> remove(w, l, w.lists[l].lastNode).w, ret |-> Some(value)]

\* index.ts 628-636 / 1500-1508
shift(w, l) ==
    IF w.lists[l].firstNode = None THEN [w |-> w, ret |-> Undefined]
    ELSE LET value == w.nodes[w.lists[l].firstNode].value
         IN [w |-> remove(w, l, w.lists[l].firstNode).w, ret |-> Some(value)]

\* A caller that pushes the items one after the other, and a caller that pops k
\* times; ret is the sequence of the results
RECURSIVE pushEach(_, _, _, _)
pushEach(w, l, items, i) ==
    IF i > Len(items) THEN w ELSE pushEach(push(w, l, items[i]).w, l, items, i + 1)

RECURSIVE popTimes(_, _, _)
popTimes(w, l, k) ==
    IF k = 0 THEN [w |-> w, ret |-> <<>>]
    ELSE LET r == pop(w, l)
             rest == popTimes(r.w, l, k - 1)
         IN [w |-> rest.w, ret |-> <<r.ret>> \o rest.ret]

\* The two loops of getNodeAt: at most k hops along nextNode, or previousNode,
\* stopping at undefined
RECURSIVE walkNext(_, _, _)
walkNext(w, current, k) ==
    IF k > 0 /\ current # None THEN walkNext(w, w.nodes[current].nextNode, k - 1) ELSE current

RECURSIVE walkPrevious(_, _, _)
walkPrevious(w, current, k) ==
    IF k > 0 /\ current # None THEN walkPrevious(w, w.nodes[current].previousNode, k - 1)
    ELSE current

\* getNodeAt with the bug of walking back from the tail as many hops as the index
getNodeAt_backByIndex(w, l, index) ==
    LET length == w.lists[l].length
        actualIndex == IF index < 0 THEN length + index ELSE index
        fromHead == actualIndex
        fromTail == length - 1 - actualIndex
    IN IF actualIndex < 0 \/ actualIndex >= length THEN None
       ELSE IF fromHead <= fromTail THEN walkNext(w, w.lists[l].firstNode, actualIndex)
       ELSE walkPrevious(w, w.lists[l].lastNode, actualIndex)

\* index.ts 701-731 / 1573-1603
getNodeAt(w, l, index) ==
    LET length == w.lists[l].length
        actualIndex == IF index < 0 THEN length + index ELSE index
        fromHead == actualIndex
        fromTail == length - 1 - actualIndex
    IN IF actualIndex < 0 \/ actualIndex >= length THEN None
       ELSE IF fromHead <= fromTail THEN walkNext(w, w.lists[l].firstNode, actualIndex)
       ELSE walkPrevious(w, w.lists[l].lastNode, fromTail)

\* The link hops the two loops of getNodeAt make: the times their body runs
RECURSIVE hopsNext(_, _, _)
hopsNext(w, current, k) ==
    IF k > 0 /\ current # None THEN 1 + hopsNext(w, w.nodes[current].nextNode, k - 1) ELSE 0

RECURSIVE hopsPrevious(_, _, _)
hopsPrevious(w, current, k) ==
    IF k > 0 /\ current # None THEN 1 + hopsPrevious(w, w.nodes[current].previousNode, k - 1)
    ELSE 0

\* getNodeAt with the bug of always walking from the head
getNodeAtPath_alwaysFromHead(w, l, index) ==
    LET length == w.lists[l].length
        actualIndex == IF index < 0 THEN length + index ELSE index
    IN IF actualIndex < 0 \/ actualIndex >= length
       THEN [ret |-> None, fromHead |-> TRUE, hops |-> 0]
       ELSE [ret |-> walkNext(w, w.lists[l].firstNode, actualIndex), fromHead |-> TRUE,
             hops |-> hopsNext(w, w.lists[l].firstNode, actualIndex)]

\* index.ts 701-731 / 1573-1603: getNodeAt with the branch it takes and the hops of
\* its loop (no loop runs when the index is out of bounds)
getNodeAtPath(w, l, index) ==
    LET length == w.lists[l].length
        actualIndex == IF index < 0 THEN length + index ELSE index
        fromHead == actualIndex
        fromTail == length - 1 - actualIndex
    IN IF actualIndex < 0 \/ actualIndex >= length
       THEN [ret |-> None, fromHead |-> TRUE, hops |-> 0]
       ELSE IF fromHead <= fromTail
       THEN [ret |-> walkNext(w, w.lists[l].firstNode, actualIndex), fromHead |-> TRUE,
             hops |-> hopsNext(w, w.lists[l].firstNode, actualIndex)]
       ELSE [ret |-> walkPrevious(w, w.lists[l].lastNode, fromTail), fromHead |-> FALSE,
             hops |-> hopsPrevious(w, w.lists[l].lastNode, fromTail)]

\* index.ts 681-684 / 1553-1556
get(w, l, index) ==
    LET node == getNodeAt(w, l, index)
    IN IF node = None THEN Undefined ELSE Some(w.nodes[node].value)

\* The start argument of splice: undefined, a number, or a node
StartUndefined == [kind |-> "undefined", v |-> 0]
StartNumber(i) == [kind |-> "number", v |-> i]
StartNode(n) == [kind |-> "node", v |-> n]

\* The removal loop with the bug of moving the node itself to the returned list, not a
\* copy of its value
RECURSIVE spliceRemove_movesNode(_, _, _, _, _, _)
spliceRemove_movesNode(w, l, removed, nodeToRemove, i, count) ==
    IF w.crashed \/ ~(i < count /\ nodeToRemove # None) THEN [w |-> w, ret |-> nodeToRemove]
    ELSE LET nextNode == w.nodes[nodeToRemove].nextNode
             w1 == remove(w, l, nodeToRemove).w
             last == w1.lists[removed].lastNode
             w2 == setOwner(setPrevious(w1, nodeToRemove, last), nodeToRemove, removed)
             w3 == IF last = None THEN setFirst(w2, removed, nodeToRemove)
                   ELSE setNext(w2, last, nodeToRemove)
             w4 == setLength(setLast(w3, removed, nodeToRemove), removed,
                             w3.lists[removed].length + 1)
         IN spliceRemove_movesNode(w4, l, removed, nextNode, i + 1, count)

\* The removal loop of splice (index.ts 819-824 / 1690-1695); ret is nodeToRemove
\* after the loop
RECURSIVE spliceRemove(_, _, _, _, _, _)
spliceRemove(w, l, removed, nodeToRemove, i, count) ==
    IF w.crashed \/ ~(i < count /\ nodeToRemove # None) THEN [w |-> w, ret |-> nodeToRemove]
    ELSE LET nextNode == w.nodes[nodeToRemove].nextNode
             w1 == append(w, removed, w.nodes[nodeToRemove].value).w
             w2 == remove(w1, l, nodeToRemove).w
         IN spliceRemove(w2, l, removed, nextNode, i + 1, count)

\* The insertion loop with the bug of inserting each further item before the last one
RECURSIVE spliceInsert_beforeLast(_, _, _, _, _, _)
spliceInsert_beforeLast(w, l, nodeToRemove, items, i, lastInserted) ==
    IF i > Len(items) \/ w.crashed THEN w
    ELSE LET r == IF lastInserted # None
                  THEN insertBeforeNode(w, l, lastInserted, items[i])
                  ELSE insertBeforeNode(w, l, nodeToRemove, items[i])
         IN spliceInsert_beforeLast(r.w, l, nodeToRemove, items, i + 1, r.ret)

\* The insertion loop of splice before a node (index.ts 830-837 / 1701-1708)
RECURSIVE spliceInsert(_, _, _, _, _, _)
spliceInsert(w, l, nodeToRemove, items, i, lastInserted) ==
    IF i > Len(items) \/ w.crashed THEN w
    ELSE LET r == IF lastInserted # None
                  THEN insertAfterNode(w, l, lastInserted, items[i])
                  ELSE insertBeforeNode(w, l, nodeToRemove, items[i])
         IN spliceInsert(r.w, l, nodeToRemove, items, i + 1, r.ret)

\* splice with the bug of always appending the items at the end
splice_insertsAtEnd(w, l, start, deleteCount, items) ==
    IF start.kind = "node" /\ w.nodes[start.v].list # l
    THEN [w |-> allocList(w), ret |-> Len(w.lists) + 1]
    ELSE
      LET length == w.lists[l].length
          actualStart == IF start.v < 0 THEN Max(0, length + start.v) ELSE Min(start.v, length)
          startNode == IF start.kind = "undefined" THEN None
                       ELSE IF start.kind = "number"
                       THEN (IF actualStart >= length THEN None ELSE getNodeAt(w, l, actualStart))
                       ELSE start.v
          removed == Len(w.lists) + 1
          w0 == allocList(w)
          actualDeleteCount == IF w.impl = "class" THEN Max(0, deleteCount) ELSE deleteCount
          r == spliceRemove(w0, l, removed, startNode, 0, actualDeleteCount)
      IN [w |-> appendAll(r.w, l, items, 1), ret |-> removed]

\* splice with the bug of taking an undefined start for index 0
splice_undefinedIsZero(w, l, start, deleteCount, items) ==
    IF start.kind = "node" /\ w.nodes[start.v].list # l
    THEN [w |-> allocList(w), ret |-> Len(w.lists) + 1]
    ELSE
      LET length == w.lists[l].length
          actualStart == IF start.v < 0 THEN Max(0, length + start.v) ELSE Min(start.v, length)
          startNode == IF start.kind # "node"
                       THEN (IF actualStart >= length THEN None ELSE getNodeAt(w, l, actualStart))
                       ELSE start.v
          removed == Len(w.lists) + 1
          w0 == allocList(w)
          actualDeleteCount == IF w.impl = "class" THEN Max(0, deleteCount) ELSE deleteCount
          r == spliceRemove(w0, l, removed, startNode, 0, actualDeleteCount)
          nodeToRemove == r.ret
          w1 == IF Len(items) > 0
                THEN IF nodeToRemove # None
                     THEN spliceInsert(r.w, l, nodeToRemove, items, 1, None)
                     ELSE appendAll(r.w, l, items, 1)
                ELSE r.w
      IN [w |-> w1, ret |-> removed]

\* splice with the bug of not checking the owner of a start node
splice_noOwnerGuard(w, l, start, deleteCount, items) ==
      LET length == w.lists[l].length
          actualStart == IF start.v < 0 THEN Max(0, length + start.v) ELSE Min(start.v, length)
          startNode == IF start.kind = "undefined" THEN None
                       ELSE IF start.kind = "number"
                       THEN (IF actualStart >= length THEN None ELSE getNodeAt(w, l, actualStart))
                       ELSE start.v
          removed == Len(w.lists) + 1
          w0 == allocList(w)
          actualDeleteCount == IF w.impl = "class" THEN Max(0, deleteCount) ELSE deleteCount
          r == spliceRemove(w0, l, removed, startNode, 0, actualDeleteCount)
          nodeToRemove == r.ret
          w1 == IF Len(items) > 0
                THEN IF nodeToRemove # None
                     THEN spliceInsert(r.w, l, nodeToRemove, items, 1, None)
                     ELSE appendAll(r.w, l, items, 1)
                ELSE r.w
      IN [w |-> w1, ret |-> removed]

\* splice with the bug of starting at the successor of a start node
splice_nodeStartSkipsOne(w, l, start, deleteCount, items) ==
    IF start.kind = "node" /\ w.nodes[start.v].list # l
    THEN [w |-> allocList(w), ret |-> Len(w.lists) + 1]
    ELSE
      LET length == w.lists[l].length
          actualStart == IF start.v < 0 THEN Max(0, length + start.v) ELSE Min(start.v, length)
          startNode == IF start.kind = "undefined" THEN None
                       ELSE IF start.kind = "number"
                       THEN (IF actualStart >= length THEN None ELSE getNodeAt(w, l, actualStart))
                       ELSE w.nodes[start.v].nextNode
          removed == Len(w.lists) + 1
          w0 == allocList(w)
          actualDeleteCount == IF w.impl = "class" THEN Max(0, deleteCount) ELSE deleteCount
          r == spliceRemove(w0, l, removed, startNode, 0, actualDeleteCount)
          nodeToRemove == r.ret
          w1 == IF Len(items) > 0
                THEN IF nodeToRemove # None
                     THEN spliceInsert(r.w, l, nodeToRemove, items, 1, None)
                     ELSE appendAll(r.w, l, items, 1)
                ELSE r.w
      IN [w |-> w1, ret |-> removed]

\* splice with the bug of taking the magnitude of a negative deleteCount
splice_absDeleteCount(w, l, start, deleteCount, items) ==
    IF start.kind = "node" /\ w.nodes[start.v].list # l
    THEN [w |-> allocList(w), ret |-> Len(w.lists) + 1]
    ELSE
      LET length == w.lists[l].length
          actualStart == IF start.v < 0 THEN Max(0, length + start.v) ELSE Min(start.v, length)
          startNode == IF start.kind = "undefined" THEN None
                       ELSE IF start.kind = "number"
                       THEN (IF actualStart >= length THEN None ELSE getNodeAt(w, l, actualStart))
                       ELSE start.v
          removed == Len(w.lists) + 1
          w0 == allocList(w)
          actualDeleteCount == IF deleteCount < 0 THEN 0 - deleteCount ELSE deleteCount
          r == spliceRemove(w0, l, removed, startNode, 0, actualDeleteCount)
          nodeToRemove == r.ret
          w1 == IF Len(items) > 0
                THEN IF nodeToRemove # None
                     THEN spliceInsert(r.w, l, nodeToRemove, items, 1, None)
                     ELSE appendAll(r.w, l, items, 1)
                ELSE r.w
      IN [w |-> w1, ret |-> removed]

\* splice with the bug of dropping the cached array even when nothing changes
splice_dropsCache(w, l, start, deleteCount, items) ==
    IF start.kind = "node" /\ w.nodes[start.v].list # l
    THEN [w |-> allocList(w), ret |-> Len(w.lists) + 1]
    ELSE
      LET length == w.lists[l].length
          actualStart == IF start.v < 0 THEN Max(0, length + start.v) ELSE Min(start.v, length)
          startNode == IF start.kind = "undefined" THEN None
                       ELSE IF start.kind = "number"
                       THEN (IF actualStart >= length THEN None ELSE getNodeAt(w, l, actualStart))
                       ELSE start.v
          removed == Len(w.lists) + 1
          w0 == invalidate(allocList(w), l)
          actualDeleteCount == IF w.impl = "class" THEN Max(0, deleteCount) ELSE deleteCount
          r == spliceRemove(w0, l, removed, startNode, 0, actualDeleteCount)
          nodeToRemove == r.ret
          w1 == IF Len(items) > 0
                THEN IF nodeToRemove # None
                     THEN spliceInsert(r.w, l, nodeToRemove, items, 1, None)
                     ELSE appendAll(r.w, l, items, 1)
                ELSE r.w
      IN [w |-> w1, ret |-> removed]

\* index.ts 789-847 / 1661-1718.  The class-node list takes Math.max(0, deleteCount)
\* (line 817), the tuple-node list leaves the bound to the loop condition.
splice(w, l, start, deleteCount, items) ==
    IF start.kind = "node" /\ w.nodes[start.v].list # l
    THEN [w |-> allocList(w), ret |-> Len(w.lists) + 1]
    ELSE
      LET length == w.lists[l].length
          actualStart == IF start.v < 0 THEN Max(0, length + start.v) ELSE Min(start.v, length)
          startNode == IF start.kind = "undefined" THEN None
                       ELSE IF start.kind = "number"
                       THEN (IF actualStart >= length THEN None ELSE getNodeAt(w, l, actualStart))
                       ELSE start.v
          removed == Len(w.lists) + 1
          w0 == allocList(w)
          actualDeleteCount == IF w.impl = "class" THEN Max(0, deleteCount) ELSE deleteCount
          r == spliceRemove(w0, l, removed, startNode, 0, actualDeleteCount)
          nodeToRemove == r.ret
          w1 == IF Len(items) > 0
                THEN IF nodeToRemove # None
                     THEN spliceInsert(r.w, l, nodeToRemove, items, 1, None)
                     ELSE appendAll(r.w, l, items, 1)
                ELSE r.w
      IN [w |-> w1, ret |-> removed]

\* index.ts 472-477 / 1344-1349: the loop of map; callback is a function of the value
\* and the index (its third argument is the list itself, the same at every call)
RECURSIVE mapLoop(_, _, _, _, _, _)
mapLoop(w, result, callback, cursor, index, fuel) ==
    IF cursor = None \/ fuel = 0 \/ w.crashed THEN w
    ELSE LET w1 == append(w, result, callback[<<w.nodes[cursor].value, index>>]).w
         IN mapLoop(w1, result, callback, w1.nodes[cursor].nextNode, index + 1, fuel - 1)

\* map with the bug of dropping the cached array of the list it reads
map_dropsSourceCache(w, l, callback) ==
    LET result == Len(w.lists) + 1
        w1 == mapLoop(allocList(w), result, callback, w.lists[l].firstNode, 0, Len(w.nodes) + 1)
    IN [w |-> [w1 EXCEPT !.lists[l].allValues = Undefined], ret |-> result]

\* index.ts 469-479 / 1341-1352
map(w, l, callback) ==
    LET result == Len(w.lists) + 1
    IN [w |-> mapLoop(allocList(w), result, callback, w.lists[l].firstNode, 0, Len(w.nodes) + 1),
        ret |-> result]

\* index.ts 532-535 / 1404-1408: the first loop of indexOf skips ahead to fromIndex
RECURSIVE skipAhead(_, _, _, _, _)
skipAhead(w, cursor, index, fromIndex, fuel) ==
    IF cursor # None /\ index < fromIndex /\ fuel > 0
    THEN skipAhead(w, w.nodes[cursor].nextNode, index + 1, fromIndex, fuel - 1)
    ELSE [cursor |-> cursor, index |-> index]

\* index.ts 537-544 / 1410-1418: the second loop compares with ===
RECURSIVE compareFrom(_, _, _, _, _)
compareFrom(w, cursor, index, searchElement, fuel) ==
    IF cursor = None \/ fuel = 0 THEN 0 - 1
    ELSE IF w.nodes[cursor].value = searchElement THEN index
    ELSE compareFrom(w, w.nodes[cursor].nextNode, index + 1, searchElement, fuel - 1)

\* indexOf with the bug of counting positions from where the comparing starts
indexOf_countsFromStart(w, l, searchElement, fromIndex) ==
    LET at == skipAhead(w, w.lists[l].firstNode, 0, fromIndex, Len(w.nodes) + 1)
    IN [w |-> w, ret |-> compareFrom(w, at.cursor, 0, searchElement, Len(w.nodes) + 1)]

\* index.ts 529-547 / 1401-1421
indexOf(w, l, searchElement, fromIndex) ==
    LET at == skipAhead(w, w.lists[l].firstNode, 0, fromIndex, Len(w.nodes) + 1)
    IN [w |-> w, ret |-> compareFrom(w, at.cursor, at.index, searchElement, Len(w.nodes) + 1)]

\* index.ts 566 / 1438-1441
includes(w, l, searchElement, fromIndex) ==
    LET r == indexOf(w, l, searchElement, fromIndex)
    IN [w |-> r.w, ret |-> r.ret # 0 - 1]

\* ---------------------------------------------------------------- specification
\* The program is any caller of the public API: it constructs lists and calls
\* their methods, with any values, with any node a list has returned before, and
\* with any index or count.  A behaviour allocates at most MaxNodes nodes and
\* MaxLists lists.  Spec makes the mutating calls; SpecToArray makes toArray calls
\* between them as well, so that a class-node list may hold a cached array.
\* The indexes and counts a call is given on a list of this length: every index
\* from below -length to above length, every count from a negative one to more than
\* there are nodes.
Indexes(w, l) == (0 - w.lists[l].length - 1)..(w.lists[l].length + 1)
DeleteCounts(w, l) == (0 - 1)..(w.lists[l].length + 1)
Starts(w, l) ==
    {StartUndefined} \cup {StartNumber(i) : i \in Indexes(w, l)}
        \cup {StartNode(n) : n \in NodeIds(w)}

Fits(w) == Len(w.nodes) <= MaxNodes /\ Len(w.lists) <= MaxLists

\* There is room for a call that allocates this many nodes and lists.
Room(nodes, lists) ==
    /\ Len(heap.nodes) + nodes <= MaxNodes
    /\ Len(heap.lists) + lists <= MaxLists

\* No call recorded, nothing pushed or shifted
NoCall == [op |-> "none"]
NoFifo == [pushed |-> <<>>, shifted |-> <<>>]

\* The iterators a caller holds at once, none of them made yet
Iterators == {1, 2}
NoIterator == [made |-> FALSE, l |-> None, current |-> None, yielded |-> <<>>, done |-> FALSE]
NoIter == [k \in Iterators |-> NoIterator]

\* No undo/redo manager made
NoManager == [made |-> FALSE]

\* No LRU cache made; the keys a cache is used with, and the value stored with each
\* (what a cache evicts and keeps depends on the keys alone)
NoLru == [made |-> FALSE]
Keys == {"a", "b", "c", "d"}
CachedValues == {1}

Init ==
    /\ heap \in {EmptyHeap(i) : i \in Impls}
    /\ call = NoCall
    /\ fifo = NoFifo
    /\ iter = NoIter
    /\ lru = NoLru
    /\ manager = NoManager

\* The call returns: the heap is as the call left it.  A call is made only while the
\* program has not ended on an uncaught error, and only if its allocations fit.
Returns(r) ==
    /\ ~heap.crashed
    /\ Fits(r.w)
    /\ heap' = r.w
    /\ UNCHANGED <<call, fifo, iter, lru, manager>>

ConstructorCall ==
    \E items \in Items :
        /\ Room(Len(items), 1)
        /\ Returns(constructor(heap, items))

AppendCall ==
    \E l \in ListIds(heap), item \in Values :
        /\ Room(1, 0)
        /\ Returns(append(heap, l, item))

PrependCall ==
    \E l \in ListIds(heap), item \in Values :
        /\ Room(1, 0)
        /\ Returns(prepend(heap, l, item))

InsertAfterNodeCall ==
    \E l \in ListIds(heap), node \in NodeIds(heap), item \in Values :
        Returns(insertAfterNode(heap, l, node, item))

InsertBeforeNodeCall ==
    \E l \in ListIds(heap), node \in NodeIds(heap), item \in Values :
        Returns(insertBeforeNode(heap, l, node, item))

RemoveCall ==
    \E l \in ListIds(heap), node \in NodeIds(heap) : Returns(remove(heap, l, node))

PopCall ==
    \E l \in ListIds(heap) : Returns(pop(heap, l))

ShiftCall ==
    \E l \in ListIds(heap) : Returns(shift(heap, l))

ClearCall ==
    \E l \in ListIds(heap) : Returns(clear(heap, l))

ToArrayCall ==
    \E l \in ListIds(heap) : Returns(toArray(heap, l))

\* Nodes a splice call allocates at least: one for each item and, from a start index,
\* one for each value it moves to the list it returns (index.ts 819-824); a call that
\* has no room for these is not made, as Returns would find.
SpliceAllocates(w, l, start, deleteCount, items) ==
    Len(items) +
        (IF start.kind = "number"
         THEN LET length == w.lists[l].length
                  actualStart == IF start.v < 0 THEN Max(0, length + start.v)
                                 ELSE Min(start.v, length)
              IN Min(Max(deleteCount, 0), length - actualStart)
         ELSE 0)

SpliceCall ==
    \E l \in ListIds(heap), items \in Items :
        /\ Room(Len(items), 1)
        /\ \E start \in Starts(heap, l), deleteCount \in DeleteCounts(heap, l) :
               /\ Room(SpliceAllocates(heap, l, start, deleteCount, items), 1)
               /\ Returns(splice(heap, l, start, deleteCount, items))

\* The mutating operations of the public API.
Next ==
    \/ ConstructorCall
    \/ AppendCall
    \/ PrependCall
    \/ InsertAfterNodeCall
    \/ InsertBeforeNodeCall
    \/ RemoveCall
    \/ PopCall
    \/ ShiftCall
    \/ ClearCall
    \/ SpliceCall

Spec == Init /\ [][Next]_vars

\* The mutating operations and toArray, which fills the class-node list's cache.
NextToArray == Next \/ ToArrayCall

SpecToArray == Init /\ [][NextToArray]_vars

\* ---------------------------------------------------------------- splice, call by call
\* SpecSplice makes one splice call, recorded in call, on a list the constructor has
\* built from up to MaxNodes values.  Beside it there is a second list, built from
\* two values, whose head has been removed: its remaining node is a node of another
\* list, its former head a removed node.  The list may hold a cached array.
TestLists == UNION {[1..k -> Values] : k \in 0..MaxNodes}

SpliceHeap(impl, a, cached) ==
    LET w1 == constructor(EmptyHeap(impl), a).w
        w2 == constructor(w1, <<"a", "b">>).w
        w3 == remove(w2, 2, getHead(w2, 2)).w
    IN IF cached THEN toArray(w3, 1).w ELSE w3

InitSplice ==
    /\ heap \in {SpliceHeap(i, a, c) : i \in Impls, a \in TestLists, c \in BOOLEAN}
    /\ call = NoCall
    /\ fifo = NoFifo
    /\ iter = NoIter
    /\ lru = NoLru
    /\ manager = NoManager

\* The counts a recorded call is given: those of DeleteCounts and one far below zero
RecordedCounts(w, l) == DeleteCounts(w, l) \cup {0 - w.lists[l].length - 2}

SpliceRecorded ==
    /\ call.op = "none"
    /\ \E start \in Starts(heap, 1), deleteCount \in RecordedCounts(heap, 1), items \in Items :
           LET r == splice(heap, 1, start, deleteCount, items)
           IN /\ heap' = r.w
              /\ call' = [op |-> "splice", before |-> heap, l |-> 1, start |-> start,
                          deleteCount |-> deleteCount, items |-> items, ret |-> r.ret]
    /\ UNCHANGED <<fifo, iter, lru, manager>>

NextSplice == SpliceRecorded

SpecSplice == InitSplice /\ [][NextSplice]_vars

\* SpecReturned makes the splice call of SpecSplice with any start and any count, and
\* with no item or one: what splice returns does not depend on the items it inserts.
ReturnedItems == {<<>>, <<"b">>}

SpliceReturning ==
    /\ call.op = "none"
    /\ \E start \in Starts(heap, 1), deleteCount \in RecordedCounts(heap, 1),
          items \in ReturnedItems :
           LET r == splice(heap, 1, start, deleteCount, items)
           IN /\ heap' = r.w
              /\ call' = [op |-> "splice", before |-> heap, l |-> 1, start |-> start,
                          deleteCount |-> deleteCount, items |-> items, ret |-> r.ret]
    /\ UNCHANGED <<fifo, iter, lru, manager>>

NextReturned == SpliceReturning

SpecReturned == InitSplice /\ [][NextReturned]_vars

\* ---------------------------------------------------------------- a list used as a queue
\* SpecFifo constructs one empty list and from then on calls only push and shift on
\* it, in any order; fifo keeps the values pushed and the values shift has returned.
FifoConstructor ==
    /\ heap.lists = <<>>
    /\ heap' = constructor(heap, <<>>).w
    /\ UNCHANGED <<call, fifo, iter, lru, manager>>

FifoPush ==
    /\ heap.lists # <<>>
    /\ Len(fifo.pushed) < MaxPushes
    /\ \E item \in Values :
           /\ heap' = push(heap, 1, item).w
           /\ fifo' = [fifo EXCEPT !.pushed = Append(@, item)]
    /\ UNCHANGED <<call, iter, lru, manager>>

FifoShift ==
    /\ heap.lists # <<>>
    /\ LET r == shift(heap, 1)
       IN /\ heap' = r.w
          /\ fifo' = IF r.ret = Undefined THEN fifo
                     ELSE [fifo EXCEPT !.shifted = Append(@, r.ret[1])]
    /\ UNCHANGED <<call, iter, lru, manager>>

NextFifo == FifoConstructor \/ FifoPush \/ FifoShift

SpecFifo == Init /\ [][NextFifo]_vars

\* ---------------------------------------------------------------- any call, recorded
\* SpecCall makes one call of any mutating method on the list SpecSplice makes its
\* splice call on, with any value and any node there is, and records it in call.
Recorded(r) ==
    /\ call.op = "none"
    /\ heap' = r.w
    /\ UNCHANGED <<fifo, iter, lru, manager>>

AppendRecorded ==
    \E value \in Values :
        LET r == append(heap, 1, value)
        IN /\ Recorded(r)
           /\ call' = [op |-> "append", before |-> heap, l |-> 1, value |-> value, ret |-> r.ret]

PrependRecorded ==
    \E value \in Values :
        LET r == prepend(heap, 1, value)
        IN /\ Recorded(r)
           /\ call' = [op |-> "prepend", before |-> heap, l |-> 1, value |-> value, ret |-> r.ret]

InsertAfterNodeRecorded ==
    \E node \in NodeIds(heap), value \in Values :
        LET r == insertAfterNode(heap, 1, node, value)
        IN /\ Recorded(r)
           /\ call' = [op |-> "insertAfterNode", before |-> heap, l |-> 1, node |-> node,
                       value |-> value, ret |-> r.ret]

InsertBeforeNodeRecorded ==
    \E node \in NodeIds(heap), value \in Values :
        LET r == insertBeforeNode(heap, 1, node, value)
        IN /\ Recorded(r)
           /\ call' = [op |-> "insertBeforeNode", before |-> heap, l |-> 1, node |-> node,
                       value |-> value, ret |-> r.ret]

RemoveRecorded ==
    \E node \in NodeIds(heap) :
        LET r == remove(heap, 1, node)
        IN /\ Recorded(r)
           /\ call' = [op |-> "remove", before |-> heap, l |-> 1, node |-> node, ret |-> r.ret]

PopRecorded ==
    LET r == pop(heap, 1)
    IN /\ Recorded(r)
       /\ call' = [op |-> "pop", before |-> heap, l |-> 1, ret |-> r.ret]

ShiftRecorded ==
    LET r == shift(heap, 1)
    IN /\ Recorded(r)
       /\ call' = [op |-> "shift", before |-> heap, l |-> 1, ret |-> r.ret]

NextCall ==
    \/ AppendRecorded
    \/ PrependRecorded
    \/ InsertAfterNodeRecorded
    \/ InsertBeforeNodeRecorded
    \/ RemoveRecorded
    \/ PopRecorded
    \/ ShiftRecorded
    \/ SpliceRecorded

SpecCall == InitSplice /\ [][NextCall]_vars

\* ---------------------------------------------------------------- two lists, call by call
\* SpecIsolation makes one call of any mutating method, recorded in call, on a list A
\* the constructor has built from up to MaxItems values, with any value and any node
\* there is; beside it there is a list B of three values, so the node arguments are
\* nodes of A and the head, the middle node and the tail of B.  B may hold a cached
\* array.
IsolationHeap(impl, a, cached) ==
    LET w == constructor(constructor(EmptyHeap(impl), a).w, <<"a", "b", "a">>).w
    IN IF cached THEN toArray(w, 2).w ELSE w

InitIsolation ==
    /\ heap \in {IsolationHeap(i, a, c) : i \in Impls, a \in Items, c \in BOOLEAN}
    /\ call = NoCall
    /\ fifo = NoFifo
    /\ iter = NoIter
    /\ lru = NoLru
    /\ manager = NoManager

ClearRecorded ==
    LET r == clear(heap, 1)
    IN /\ Recorded(r)
       /\ call' = [op |-> "clear", before |-> heap, l |-> 1, ret |-> r.ret]

NextIsolation == NextCall \/ ClearRecorded

SpecIsolation == InitIsolation /\ [][NextIsolation]_vars

\* ---------------------------------------------------------------- the two implementations side by side
\* SpecPair runs a caller against a class-node heap, in heap, and the same caller
\* against a tuple-node heap, in call.other: every call of Spec, and toArray, is
\* made on both with the same arguments, the nodes and lists of the two heaps
\* corresponding by the order of their creation.  call.same keeps whether every pair
\* of calls so far has returned the same result.
InitPair ==
    /\ heap = EmptyHeap("class")
    /\ call = [op |-> "pair", other |-> EmptyHeap("tuple"), same |-> TRUE]
    /\ fifo = NoFifo
    /\ iter = NoIter
    /\ lru = NoLru
    /\ manager = NoManager

PairReturns(ofClass, ofTuple) ==
    /\ ~heap.crashed
    /\ Fits(ofClass.w)
    /\ heap' = ofClass.w
    /\ call' = [op |-> "pair", other |-> ofTuple.w,
                same |-> call.same /\ ofClass.ret = ofTuple.ret]
    /\ UNCHANGED <<fifo, iter, lru, manager>>

PairConstructor ==
    \E items \in Items :
        /\ Room(Len(items), 1)
        /\ PairReturns(constructor(heap, items), constructor(call.other, items))

PairAppend ==
    \E l \in ListIds(heap), item \in Values :
        /\ Room(1, 0)
        /\ PairReturns(append(heap, l, item), append(call.other, l, item))

PairPrepend ==
    \E l \in ListIds(heap), item \in Values :
        /\ Room(1, 0)
        /\ PairReturns(prepend(heap, l, item), prepend(call.other, l, item))

PairInsertAfterNode ==
    \E l \in ListIds(heap), node \in NodeIds(heap), item \in Values :
        PairReturns(insertAfterNode(heap, l, node, item),
                    insertAfterNode(call.other, l, node, item))

PairInsertBeforeNode ==
    \E l \in ListIds(heap), node \in NodeIds(heap), item \in Values :
        PairReturns(insertBeforeNode(heap, l, node, item),
                    insertBeforeNode(call.other, l, node, item))

PairRemove ==
    \E l \in ListIds(heap), node \in NodeIds(heap) :
        PairReturns(remove(heap, l, node), remove(call.other, l, node))

PairPop == \E l \in ListIds(heap) : PairReturns(pop(heap, l), pop(call.other, l))

PairShift == \E l \in ListIds(heap) : PairReturns(shift(heap, l), shift(call.other, l))

PairClear == \E l \in ListIds(heap) : PairReturns(clear(heap, l), clear(call.other, l))

\* toArray is called on the first list made, the one list whose cache is filled
PairToArray ==
    heap.lists # <<>> /\ PairReturns(toArray(heap, 1), toArray(call.other, 1))

PairSplice ==
    \E l \in ListIds(heap), items \in Items :
        /\ Room(Len(items), 1)
        /\ \E start \in Starts(heap, l), deleteCount \in DeleteCounts(heap, l) :
               /\ Room(SpliceAllocates(heap, l, start, deleteCount, items), 1)
               /\ PairReturns(splice(heap, l, start, deleteCount, items),
                              splice(call.other, l, start, deleteCount, items))

NextPair ==
    \/ PairConstructor
    \/ PairAppend
    \/ PairPrepend
    \/ PairInsertAfterNode
    \/ PairInsertBeforeNode
    \/ PairRemove
    \/ PairPop
    \/ PairShift
    \/ PairClear
    \/ PairToArray
    \/ PairSplice

SpecPair == InitPair /\ [][NextPair]_vars

\* ---------------------------------------------------------------- map, call by call
\* SpecMap makes one call of map, recorded in call, on the list SpecSplice makes its
\* splice call on, with any callback from a value and an index to a value.
Callbacks == [Values \X (0..(MaxNodes - 1)) -> Values]

MapRecorded ==
    /\ call.op = "none"
    /\ \E callback \in Callbacks :
           LET r == map(heap, 1, callback)
           IN /\ heap' = r.w
              /\ call' = [op |-> "map", before |-> heap, l |-> 1, callback |-> callback,
                          ret |-> r.ret]
    /\ UNCHANGED <<fifo, iter, lru, manager>>

NextMap == MapRecorded

SpecMap == InitSplice /\ [][NextMap]_vars

\* ---------------------------------------------------------------- getNodeAt, call by call
\* SpecGetNodeAt makes one call of getNodeAt, recorded in call with the path it took, on
\* a list the constructor has built from up to MaxLength values, at every index from
\* below -length to above length.
LongLists == UNION {[1..k -> Values] : k \in 0..MaxLength}

InitGetNodeAt ==
    /\ heap \in {constructor(EmptyHeap(i), a).w : i \in Impls, a \in LongLists}
    /\ call = NoCall
    /\ fifo = NoFifo
    /\ iter = NoIter
    /\ lru = NoLru
    /\ manager = NoManager

GetNodeAtRecorded ==
    /\ call.op = "none"
    /\ \E index \in Indexes(heap, 1) :
           LET r == getNodeAtPath(heap, 1, index)
           IN call' = [op |-> "getNodeAt", l |-> 1, index |-> index, ret |-> r.ret,
                       fromHead |-> r.fromHead, hops |-> r.hops]
    /\ UNCHANGED <<heap, fifo, iter, lru, manager>>

NextGetNodeAt == GetNodeAtRecorded

SpecGetNodeAt == InitGetNodeAt /\ [][NextGetNodeAt]_vars

\* ---------------------------------------------------------------- iteration
\* index.ts 409-410, 1281-1282: the cursor a new iterator starts with
iterator_fromTail(w, l) == w.lists[l].lastNode

iterator(w, l) == w.lists[l].firstNode

\* next with the bug of stepping to the previous node
next_stepsBack(w, current) ==
    IF current = None
    THEN [current |-> None, ret |-> [done |-> TRUE, value |-> Undefined]]
    ELSE [current |-> w.nodes[current].previousNode,
          ret |-> [done |-> FALSE, value |-> Some(w.nodes[current].value)]]

\* index.ts 412-421, 1285-1293: one call of next on an iterator whose cursor is current
next(w, current) ==
    IF current = None
    THEN [current |-> None, ret |-> [done |-> TRUE, value |-> Undefined]]
    ELSE [current |-> w.nodes[current].nextNode,
          ret |-> [done |-> FALSE, value |-> Some(w.nodes[current].value)]]

\* list[Symbol.iterator]() is called and the iterator kept as iterator k, in place of
\* the one kept there before.
IteratorCallAs(k) ==
    /\ ~heap.crashed
    /\ \E l \in ListIds(heap) :
           iter' = [iter EXCEPT ![k] = [made |-> TRUE, l |-> l, current |-> iterator(heap, l),
                                        yielded |-> <<>>, done |-> FALSE]]
    /\ UNCHANGED <<heap, call, fifo, lru, manager>>

\* next() is called on iterator k; yielded keeps the values of its results, done whether
\* its last result was done.
IteratorNextOf(k) ==
    /\ ~heap.crashed
    /\ iter[k].made
    /\ LET r == next(heap, iter[k].current)
       IN iter' = [iter EXCEPT ![k] =
                      [made |-> TRUE, l |-> iter[k].l, current |-> r.current,
                       yielded |-> IF r.ret.done THEN iter[k].yielded
                                   ELSE Append(iter[k].yielded, r.ret.value[1]),
                       done |-> r.ret.done]]
    /\ UNCHANGED <<heap, call, fifo, lru, manager>>

IteratorCall == \E k \in Iterators : IteratorCallAs(k)

IteratorNext == \E k \in Iterators : IteratorNextOf(k)

\* SpecIterator iterates over lists that are not mutated: the lists SpecSplice starts
\* with, two iterators at most at a time, their calls of next in any order.
NextIterator == IteratorCall \/ IteratorNext

SpecIterator == InitSplice /\ [][NextIterator]_vars

\* SpecIterate mutates lists while one is iterated: it makes the calls of Spec and,
\* between them, in any order, makes an iterator and calls next on it.
IterateCall == IteratorCallAs(1)

IterateNext == IteratorNextOf(1)

NextIterate == Next \/ IterateCall \/ IterateNext

SpecIterate == Init /\ [][NextIterate]_vars

\* ---------------------------------------------------------------- one iterator, one mutation
\* SpecLookAhead makes one iterator on a list SpecSplice starts with, calls next on it
\* any number of times and, before, between or after these calls, makes one call of a
\* mutating method on the iterated list, recorded in call.
LookAheadCall == ~iter[1].made /\ IteratorCallAs(1)

LookAheadNext == IteratorNextOf(1)

LookAheadMutation ==
    /\ UNCHANGED iter
    /\ \/ AppendRecorded
       \/ PrependRecorded
       \/ InsertAfterNodeRecorded
       \/ InsertBeforeNodeRecorded
       \/ RemoveRecorded
       \/ PopRecorded
       \/ ShiftRecorded
       \/ ClearRecorded

NextLookAhead == LookAheadCall \/ LookAheadNext \/ LookAheadMutation

SpecLookAhead == InitSplice /\ [][NextLookAhead]_vars

\* ---------------------------------------------------------------- the LRU cache of the README
\* A cache c is [capacity, list, map]: list is the identity of its DoubleLinkedList,
\* map[key] the node Map.get(key) returns, None for undefined.
\* README 166-173
LRUCache(w, capacity) ==
    LET made == constructor(w, <<>>)
    IN [w |-> made.w,
        c |-> [made |-> TRUE, capacity |-> capacity, list |-> made.ret,
               map |-> [key \in Keys |-> None]]]

\* get with the bug of leaving the node read where it is
LRUCache_get_keepsPlace(w, c, key) ==
    LET node == c.map[key]
    IN IF node # None
       THEN [w |-> w, c |-> c, ret |-> Some(w.nodes[node].value.value)]
       ELSE [w |-> w, c |-> c, ret |-> Undefined]

\* README 175-185
LRUCache_get(w, c, key) ==
    LET node == c.map[key]
    IN IF node # None
       THEN LET w1 == remove(w, c.list, node).w
                newNode == prepend(w1, c.list, w1.nodes[node].value)
            IN [w |-> newNode.w, c |-> [c EXCEPT !.map[key] = newNode.ret],
                ret |-> Some(w1.nodes[node].value.value)]
       ELSE [w |-> w, c |-> c, ret |-> Undefined]

\* set with the bug of leaving the evicted key in the map
LRUCache_set_keepsEvicted(w, c, key, value) ==
    LET existingNode == c.map[key]
    IN IF existingNode # None
       THEN LET w1 == remove(w, c.list, existingNode).w
                newNode == prepend(w1, c.list, [key |-> key, value |-> value])
            IN [w |-> newNode.w, c |-> [c EXCEPT !.map[key] = newNode.ret]]
       ELSE LET tail == getTail(w, c.list)
                evicts == getLength(w, c.list) >= c.capacity /\ tail # None
                w1 == IF evicts THEN remove(w, c.list, tail).w ELSE w
                newNode == prepend(w1, c.list, [key |-> key, value |-> value])
            IN [w |-> newNode.w, c |-> [c EXCEPT !.map[key] = newNode.ret]]

\* README 187-209
LRUCache_set(w, c, key, value) ==
    LET existingNode == c.map[key]
    IN IF existingNode # None
       THEN LET w1 == remove(w, c.list, existingNode).w
                newNode == prepend(w1, c.list, [key |-> key, value |-> value])
            IN [w |-> newNode.w, c |-> [c EXCEPT !.map[key] = newNode.ret]]
       ELSE LET tail == getTail(w, c.list)
                evicts == getLength(w, c.list) >= c.capacity /\ tail # None
                w1 == IF evicts THEN remove(w, c.list, tail).w ELSE w
                c1 == IF evicts THEN [c EXCEPT !.map[w.nodes[tail].value.key] = None] ELSE c
                newNode == prepend(w1, c.list, [key |-> key, value |-> value])
            IN [w |-> newNode.w, c |-> [c1 EXCEPT !.map[key] = newNode.ret]]

\* What call keeps of the accesses to a cache (a get that finds its key, or a set): the
\* keys accessed so far, the most recently accessed first, each once; the keys the map
\* has lost by the last access; and the key that was, before that access, the least
\* recently accessed of the keys then in the map (none when the map was empty).
Accessed(c, after, key) ==
    LET held == {k \in Keys : c.map[k] # None}
        order == SelectSeq(call.accessed, LAMBDA k : k \in held)
    IN [op |-> "access", key |-> key,
        accessed |-> <<key>> \o SelectSeq(call.accessed, LAMBDA k : k # key),
        evicted |-> {k \in held : after.map[k] = None},
        oldest |-> IF order = <<>> THEN Undefined ELSE Some(order[Len(order)])]

\* new LRUCache(capacity), with any capacity from 1
LruConstructor ==
    /\ ~lru.made
    /\ \E capacity \in 1..MaxCapacity :
           LET r == LRUCache(heap, capacity)
           IN heap' = r.w /\ lru' = r.c
    /\ call' = [op |-> "LRUCache", accessed |-> <<>>, evicted |-> {}, oldest |-> Undefined]
    /\ UNCHANGED <<fifo, iter, manager>>

\* cache.get(key); a call is made while the nodes the list has allocated leave room
LruGet ==
    /\ lru.made
    /\ ~heap.crashed
    /\ \E key \in Keys :
           LET r == LRUCache_get(heap, lru, key)
           IN /\ Len(r.w.nodes) <= MaxCached
              /\ heap' = r.w
              /\ lru' = r.c
              /\ call' = IF r.ret = Undefined THEN call ELSE Accessed(lru, r.c, key)
    /\ UNCHANGED <<fifo, iter, manager>>

\* cache.set(key, value)
LruSet ==
    /\ lru.made
    /\ ~heap.crashed
    /\ \E key \in Keys, value \in CachedValues :
           LET r == LRUCache_set(heap, lru, key, value)
           IN /\ Len(r.w.nodes) <= MaxCached
              /\ heap' = r.w
              /\ lru' = r.c
              /\ call' = Accessed(lru, r.c, key)
    /\ UNCHANGED <<fifo, iter, manager>>

NextLru == LruConstructor \/ LruGet \/ LruSet

SpecLru == Init /\ [][NextLru]_vars

\* ---------------------------------------------------------------- the undo/redo manager of the README
\* A manager m is [history, current]: the identity of its DoubleLinkedList and the node
\* it stands at, None for undefined.
\* README 221-223
UndoRedoManager(w) ==
    LET made == constructor(w, <<>>)
    IN [w |-> made.w, m |-> [made |-> TRUE, history |-> made.ret, current |-> None]]

\* execute with the bug of keeping the states that follow the current one
UndoRedoManager_execute_keepsFuture(w, m, state) ==
    LET r == IF m.current # None THEN insertAfterNode(w, m.history, m.current, state)
             ELSE append(w, m.history, state)
    IN [w |-> r.w, m |-> [m EXCEPT !.current = r.ret]]

\* README 232-235
executeAfter(w1, m, state) ==
    LET r == IF m.current # None THEN insertAfterNode(w1, m.history, m.current, state)
             ELSE append(w1, m.history, state)
    IN [w |-> r.w, m |-> [m EXCEPT !.current = r.ret]]

\* README 225-236
UndoRedoManager_execute(w, m, state) ==
    executeAfter(IF m.current # None /\ w.nodes[m.current].nextNode # None
                 THEN splice(w, m.history, StartNode(w.nodes[m.current].nextNode),
                             getLength(w, m.history), <<>>).w
                 ELSE w, m, state)

\* README 238-244
UndoRedoManager_undo(w, m) ==
    IF m.current # None /\ w.nodes[m.current].previousNode # None
    THEN LET current == w.nodes[m.current].previousNode
         IN [w |-> w, m |-> [m EXCEPT !.current = current],
             ret |-> Some(w.nodes[current].value)]
    ELSE [w |-> w, m |-> m, ret |-> Undefined]

\* README 246-252
UndoRedoManager_redo(w, m) ==
    IF m.current # None /\ w.nodes[m.current].nextNode # None
    THEN LET current == w.nodes[m.current].nextNode
         IN [w |-> w, m |-> [m EXCEPT !.current = current],
             ret |-> Some(w.nodes[current].value)]
    ELSE [w |-> w, m |-> m, ret |-> Undefined]

\* The nodes that follow node n in its list, in order
RECURSIVE nodesAfter(_, _, _)
nodesAfter(w, n, fuel) ==
    IF fuel = 0 \/ w.nodes[n].nextNode = None THEN <<>>
    ELSE <<w.nodes[n].nextNode>> \o nodesAfter(w, w.nodes[n].nextNode, fuel - 1)

\* new UndoRedoManager()
ManagerConstructor ==
    /\ ~manager.made
    /\ LET r == UndoRedoManager(heap)
       IN heap' = r.w /\ manager' = r.m
    /\ call' = [op |-> "UndoRedoManager"]
    /\ UNCHANGED <<fifo, iter, lru>>

\* manager.execute(state); call keeps the node the manager stood at and the nodes that
\* followed it in the history.  A call is made while the nodes allocated leave room.
ManagerExecute ==
    /\ manager.made
    /\ ~heap.crashed
    /\ \E state \in Values :
           LET r == UndoRedoManager_execute(heap, manager, state)
               followed == IF manager.current = None THEN <<>>
                           ELSE nodesAfter(heap, manager.current, Len(heap.nodes))
           IN /\ Len(r.w.nodes) <= MaxHistory
              /\ heap' = r.w
              /\ manager' = r.m
              /\ call' = [op |-> "execute", state |-> state, previous |-> manager.current,
                          followed |-> followed]
    /\ UNCHANGED <<fifo, iter, lru>>

\* manager.undo()
ManagerUndo ==
    /\ manager.made
    /\ ~heap.crashed
    /\ LET r == UndoRedoManager_undo(heap, manager)
       IN /\ heap' = r.w
          /\ manager' = r.m
          /\ call' = [op |-> "undo", ret |-> r.ret]
    /\ UNCHANGED <<fifo, iter, lru>>

\* manager.redo()
ManagerRedo ==
    /\ manager.made
    /\ ~heap.crashed
    /\ LET r == UndoRedoManager_redo(heap, manager)
       IN /\ heap' = r.w
          /\ manager' = r.m
          /\ call' = [op |-> "redo", ret |-> r.ret]
    /\ UNCHANGED <<fifo, iter, lru>>

NextManager == ManagerConstructor \/ ManagerExecute \/ ManagerUndo \/ ManagerRedo

SpecManager == Init /\ [][NextManager]_vars

\* ---------------------------------------------------------------- observations
\* The nodes met from cursor by following nextNode, and by following previousNode.
\* A walk longer than the nodes there are has met a cycle and is cut there.
RECURSIVE nodesFrom(_, _, _)
nodesFrom(w, cursor, fuel) ==
    IF cursor = None \/ fuel = 0 THEN <<>>
    ELSE <<cursor>> \o nodesFrom(w, w.nodes[cursor].nextNode, fuel - 1)

RECURSIVE nodesBackFrom(_, _, _)
nodesBackFrom(w, cursor, fuel) ==
    IF cursor = None \/ fuel = 0 THEN <<>>
    ELSE <<cursor>> \o nodesBackFrom(w, w.nodes[cursor].previousNode, fuel - 1)

\* The list's nodes from head to tail, and from tail to head
Chain(w, l) == nodesFrom(w, w.lists[l].firstNode, Len(w.nodes) + 1)
ChainBack(w, l) == nodesBackFrom(w, w.lists[l].lastNode, Len(w.nodes) + 1)

Range(s) == {s[i] : i \in DOMAIN s}
Without(s, x) == SelectSeq(s, LAMBDA y : y # x)
\* The values of the list's nodes from head to tail
Contents(w, l) == [i \in 1..Len(Chain(w, l)) |-> w.nodes[Chain(w, l)[i]].value]
\* The array reference, Array.prototype.splice: where it starts, how many elements it
\* deletes, the array it leaves and the array it returns
ArrayStart(len, s) == IF s < 0 THEN Max(0, len + s) ELSE Min(s, len)
ArrayDeleteCount(len, s, d) == Min(Max(d, 0), len - ArrayStart(len, s))
ArrayLeft(a, s, d, xs) ==
    SubSeq(a, 1, ArrayStart(Len(a), s)) \o xs
        \o SubSeq(a, ArrayStart(Len(a), s) + ArrayDeleteCount(Len(a), s, d) + 1, Len(a))
ArrayReturned(a, s, d) ==
    SubSeq(a, ArrayStart(Len(a), s) + 1, ArrayStart(Len(a), s) + ArrayDeleteCount(Len(a), s, d))
\* The objects there were before are as they were: nothing but new objects was made.
Untouched(before, after) ==
    /\ ~after.crashed
    /\ \A n \in NodeIds(before) : after.nodes[n] = before.nodes[n]
    /\ \A l \in ListIds(before) : after.lists[l] = before.lists[l]
    /\ after.removed = before.removed
\* List l is a new list, and empty
NewAndEmpty(before, after, l) ==
    /\ l \in ListIds(after) \ ListIds(before)
    /\ after.lists[l].firstNode = None
    /\ after.lists[l].lastNode = None
    /\ after.lists[l].length = 0
    /\ toArray(after, l).ret = <<>>
\* The position of node n in list l, counted from 0: the number of nodes before it
PositionOf(w, l, n) ==
    CHOOSE i \in 0..Len(Chain(w, l)) :
        \/ i < Len(Chain(w, l)) /\ Chain(w, l)[i + 1] = n
        \/ i = Len(Chain(w, l)) /\ n \notin Range(Chain(w, l))
Reverse(s) == [i \in 1..Len(s) |-> s[Len(s) + 1 - i]]
OwnedBy(w, l) == {n \in NodeIds(w) : w.nodes[n].list = l}
Unlinked(w, n) ==
    /\ w.nodes[n].previousNode = None
    /\ w.nodes[n].nextNode = None
    /\ w.nodes[n].list = None

\* ---------------------------------------------------------------- claims

\* C1: after every sequence of mutating operations the stored length of every list is
\* non-negative and equals the number of nodes met by following next from head and
\* the number met by following previous from tail.
C1_LengthCountsNodes ==
    \A l \in ListIds(heap) :
        /\ heap.lists[l].length >= 0
        /\ heap.lists[l].length = Len(Chain(heap, l))
        /\ heap.lists[l].length = Len(ChainBack(heap, l))

\* A list of two nodes beside a second list, after a node has been removed.
C1_Witness ==
    /\ heap.removed # {}
    /\ Len(heap.lists) >= 2
    /\ \E l \in ListIds(heap) : heap.lists[l].length = 2

\* C2: for all nodes A and B owned by the same list, A.next = B iff B.previous = A.
C2_SymmetricLinks ==
    \A a \in NodeIds(heap), b \in NodeIds(heap) :
        (heap.nodes[a].list # None /\ heap.nodes[a].list = heap.nodes[b].list)
            => (heap.nodes[a].nextNode = b <=> heap.nodes[b].previousNode = a)

\* A list of three nodes whose middle node is the newest: it was inserted between
\* two nodes.
C2_Witness ==
    \E l \in ListIds(heap) :
        /\ heap.lists[l].length = 3
        /\ Chain(heap, l)[2] = Len(heap.nodes)

\* C3: head is undefined iff tail is undefined iff length = 0 iff isEmpty(); a
\* non-empty list has head.previous and tail.next undefined; removing the sole node
\* of a one-element list leaves head and tail undefined.
C3_Boundary ==
    \A l \in ListIds(heap) :
        /\ (getHead(heap, l) = None) <=> (getTail(heap, l) = None)
        /\ (getHead(heap, l) = None) <=> (getLength(heap, l) = 0)
        /\ (getLength(heap, l) = 0) <=> isEmpty(heap, l)
        /\ ~isEmpty(heap, l) =>
              /\ heap.nodes[getHead(heap, l)].previousNode = None
              /\ heap.nodes[getTail(heap, l)].nextNode = None
        /\ getLength(heap, l) = 1 =>
              LET r == remove(heap, l, getHead(heap, l))
              IN getHead(r.w, l) = None /\ getTail(r.w, l) = None /\ isEmpty(r.w, l)

\* A one-element list, beside a list that a removal has emptied.
C3_Witness ==
    /\ heap.removed # {}
    /\ \E l \in ListIds(heap) : heap.lists[l].length = 1
    /\ \E l \in ListIds(heap) : isEmpty(heap, l)

\* C4: a node's owner is list L exactly when the node is met from L's head by
\* following next, and is undefined exactly when the node has been removed; no node
\* is in the chain of two lists.
C4_Owner ==
    /\ \A n \in NodeIds(heap), l \in ListIds(heap) :
           heap.nodes[n].list = l <=> n \in Range(Chain(heap, l))
    /\ \A n \in NodeIds(heap) : heap.nodes[n].list = None <=> n \in heap.removed
    /\ \A l1 \in ListIds(heap), l2 \in ListIds(heap) :
           l1 # l2 => Range(Chain(heap, l1)) \cap Range(Chain(heap, l2)) = {}

\* Two non-empty lists and a removed node.
C4_Witness ==
    /\ Len(heap.lists) >= 2
    /\ \A l \in ListIds(heap) : ~isEmpty(heap, l)
    /\ heap.removed # {}

\* C5: remove(node) on list L with a node whose owner is not L (a node of another
\* list, a node already removed, the same node a second time) returns false and
\* changes nothing.
C5_RemoveNotOwned ==
    \A l \in ListIds(heap), n \in NodeIds(heap) :
        IF heap.nodes[n].list # l
        THEN remove(heap, l, n) = [w |-> heap, ret |-> FALSE]
        ELSE LET first == remove(heap, l, n)
             IN remove(first.w, l, n) = [w |-> first.w, ret |-> FALSE]

\* A list is handed a node of another list, and there is a removed node to hand it too.
C5_Witness ==
    /\ heap.removed # {}
    /\ \E l \in ListIds(heap), n \in NodeIds(heap) :
           /\ heap.nodes[n].list \notin {l, None}
           /\ remove(heap, l, n).ret = FALSE

\* C6: remove(node) on a node the list owns (head, tail, middle or sole node) returns
\* true, takes exactly that node out of the sequence, the others keeping their order,
\* counts length down by one and leaves the node with previous, next and owner
\* undefined.
C6_RemoveOwned ==
    \A l \in ListIds(heap) : \A n \in OwnedBy(heap, l) :
        LET r == remove(heap, l, n) IN
        /\ r.ret = TRUE
        /\ ~r.w.crashed
        /\ Chain(r.w, l) = Without(Chain(heap, l), n)
        /\ ChainBack(r.w, l) = Without(ChainBack(heap, l), n)
        /\ Len(Chain(r.w, l)) = Len(Chain(heap, l)) - 1
        /\ getLength(r.w, l) = getLength(heap, l) - 1
        /\ Unlinked(r.w, n)

\* A list of three nodes: its head, its middle node and its tail can each be removed.
C6_Witness ==
    \E l \in ListIds(heap) :
        /\ heap.lists[l].length = 3
        /\ \A n \in OwnedBy(heap, l) : remove(heap, l, n).ret = TRUE

\* C7: append(v) always succeeds: the sequence becomes the old one followed by v, the
\* returned node is the new tail, holds v and is owned by the list, length grows by
\* one, and head becomes the new node only if the list was empty.
C7_Append ==
    \A l \in ListIds(heap), v \in Values :
        LET r == append(heap, l, v) IN
        /\ ~r.w.crashed
        /\ r.ret \notin NodeIds(heap)
        /\ Chain(r.w, l) = Chain(heap, l) \o <<r.ret>>
        /\ toArray(r.w, l).ret = toArray([heap EXCEPT !.lists[l].allValues = Undefined], l).ret \o <<v>>
        /\ getTail(r.w, l) = r.ret
        /\ r.w.nodes[r.ret].value = v
        /\ r.w.nodes[r.ret].list = l
        /\ getLength(r.w, l) = getLength(heap, l) + 1
        /\ getHead(r.w, l) = (IF isEmpty(heap, l) THEN r.ret ELSE getHead(heap, l))

\* The newest node is the tail of a list of at least two nodes, beside an empty list.
C7_Witness ==
    /\ \E l \in ListIds(heap) :
           heap.lists[l].length >= 2 /\ getTail(heap, l) = Len(heap.nodes)
    /\ \E l \in ListIds(heap) : isEmpty(heap, l)

\* C8: prepend(v) always succeeds: the sequence becomes v followed by the old one, the
\* returned node is the new head, holds v and is owned by the list, length grows by
\* one, and tail becomes the new node only if the list was empty.
C8_Prepend ==
    \A l \in ListIds(heap), v \in Values :
        LET r == prepend(heap, l, v) IN
        /\ ~r.w.crashed
        /\ r.ret \notin NodeIds(heap)
        /\ Chain(r.w, l) = <<r.ret>> \o Chain(heap, l)
        /\ toArray(r.w, l).ret = <<v>> \o toArray([heap EXCEPT !.lists[l].allValues = Undefined], l).ret
        /\ getHead(r.w, l) = r.ret
        /\ r.w.nodes[r.ret].value = v
        /\ r.w.nodes[r.ret].list = l
        /\ getLength(r.w, l) = getLength(heap, l) + 1
        /\ getTail(r.w, l) = (IF isEmpty(heap, l) THEN r.ret ELSE getTail(heap, l))

\* The newest node is the head of a list of at least two nodes, beside an empty list.
C8_Witness ==
    /\ \E l \in ListIds(heap) :
           heap.lists[l].length >= 2 /\ getHead(heap, l) = Len(heap.nodes)
    /\ \E l \in ListIds(heap) : isEmpty(heap, l)

\* C9: insertAfterNode(node, v) on a node the list owns returns a new node that is the
\* direct successor of node and the direct predecessor of node's former successor;
\* length grows by one; on the tail the result is that of append(v) and the new node
\* becomes the tail, otherwise the tail is unchanged; the head is never changed.
C9_InsertAfterNode ==
    \A l \in ListIds(heap) : \A n \in OwnedBy(heap, l), v \in Values :
        LET r == insertAfterNode(heap, l, n, v)
            former == heap.nodes[n].nextNode
        IN
        /\ ~r.w.crashed
        /\ r.ret # None /\ r.ret \notin NodeIds(heap)
        /\ r.w.nodes[r.ret].value = v /\ r.w.nodes[r.ret].list = l
        /\ r.w.nodes[n].nextNode = r.ret
        /\ r.w.nodes[r.ret].previousNode = n
        /\ r.w.nodes[r.ret].nextNode = former
        /\ former # None => r.w.nodes[former].previousNode = r.ret
        /\ getLength(r.w, l) = getLength(heap, l) + 1
        /\ IF n = getTail(heap, l)
           THEN r = append(heap, l, v) /\ getTail(r.w, l) = r.ret
           ELSE getTail(r.w, l) = getTail(heap, l)
        /\ getHead(r.w, l) = getHead(heap, l)

\* A list of at least two nodes: the insertion can be made after its tail and after a
\* node that has a successor.
C9_Witness ==
    \E l \in ListIds(heap), v \in Values :
        /\ heap.lists[l].length >= 2
        /\ insertAfterNode(heap, l, getHead(heap, l), v).ret # None
        /\ insertAfterNode(heap, l, getTail(heap, l), v).ret # None

\* C10: insertBeforeNode(node, v) on a node the list owns returns a new node that is
\* the direct predecessor of node and the direct successor of node's former
\* predecessor; length grows by one; on the head the result is that of prepend(v) and
\* the new node becomes the head, otherwise the head is unchanged; the tail is never
\* changed.
C10_InsertBeforeNode ==
    \A l \in ListIds(heap) : \A n \in OwnedBy(heap, l), v \in Values :
        LET r == insertBeforeNode(heap, l, n, v)
            former == heap.nodes[n].previousNode
        IN
        /\ ~r.w.crashed
        /\ r.ret # None /\ r.ret \notin NodeIds(heap)
        /\ r.w.nodes[r.ret].value = v /\ r.w.nodes[r.ret].list = l
        /\ r.w.nodes[n].previousNode = r.ret
        /\ r.w.nodes[r.ret].nextNode = n
        /\ r.w.nodes[r.ret].previousNode = former
        /\ former # None => r.w.nodes[former].nextNode = r.ret
        /\ getLength(r.w, l) = getLength(heap, l) + 1
        /\ IF n = getHead(heap, l)
           THEN r = prepend(heap, l, v) /\ getHead(r.w, l) = r.ret
           ELSE getHead(r.w, l) = getHead(heap, l)
        /\ getTail(r.w, l) = getTail(heap, l)

\* A list of at least two nodes: the insertion can be made before its head and before
\* a node that has a predecessor.
C10_Witness ==
    \E l \in ListIds(heap), v \in Values :
        /\ heap.lists[l].length >= 2
        /\ insertBeforeNode(heap, l, getHead(heap, l), v).ret # None
        /\ insertBeforeNode(heap, l, getTail(heap, l), v).ret # None

\* C11: insertAfterNode(node, v) and insertBeforeNode(node, v) with a node whose owner
\* is not this list (a node of another list, or a removed node) return undefined,
\* allocate nothing and change nothing: no node, no list, no link, no head, tail or
\* length is different afterwards.
C11_InsertNotOwned ==
    \A l \in ListIds(heap), n \in NodeIds(heap), v \in Values :
        heap.nodes[n].list # l =>
            /\ insertAfterNode(heap, l, n, v) = [w |-> heap, ret |-> None]
            /\ insertBeforeNode(heap, l, n, v) = [w |-> heap, ret |-> None]

\* A non-empty list is handed a node of another list, and there is a removed node to
\* hand it too.
C11_Witness ==
    \E l \in ListIds(heap), n \in NodeIds(heap), m \in heap.removed, v \in Values :
        /\ ~isEmpty(heap, l)
        /\ heap.nodes[n].list \notin {l, None}
        /\ insertAfterNode(heap, l, n, v).ret = None
        /\ insertBeforeNode(heap, l, m, v).ret = None

\* C12: index-form splice matches the array reference.  For every list, with contents
\* a, every integer start s, every integer deleteCount d and every item tuple xs,
\* with s' = max(0, len + s) if s < 0 and min(s, len) otherwise and
\* d' = min(max(d, 0), len - s'), splice(s, d, ...xs) leaves the list equal to
\* a[0..s') ++ xs ++ a[s'+d'..len) and returns a list equal to a[s'..s'+d'), in the
\* original order; a deleteCount beyond the remaining nodes is not an error.
C12_SpliceIndex ==
    (call.op = "splice" /\ call.start.kind = "number") =>
        LET a == Contents(call.before, call.l)
            s == call.start.v
            d == call.deleteCount
        IN
        /\ ~heap.crashed
        /\ call.ret \notin ListIds(call.before)
        /\ Contents(heap, call.l) = ArrayLeft(a, s, d, call.items)
        /\ getLength(heap, call.l) = Len(ArrayLeft(a, s, d, call.items))
        /\ Contents(heap, call.ret) = ArrayReturned(a, s, d)
        /\ getLength(heap, call.ret) = Len(ArrayReturned(a, s, d))

\* splice(1, 1, x, y) on a list of three has replaced the middle value by two, and
\* returned a list of one.
C12_Witness ==
    /\ call.op = "splice"
    /\ call.start = StartNumber(1) /\ call.deleteCount = 1 /\ Len(call.items) = 2
    /\ getLength(call.before, call.l) = 3
    /\ getLength(heap, call.l) = 4
    /\ getLength(heap, call.ret) = 1

\* C13: splice with start = undefined works at the end of the list: for every
\* deleteCount, positive ones too, it removes nothing, returns an empty list and
\* appends the items in order after the current tail; an empty list becomes exactly
\* the items.
C13_SpliceUndefined ==
    (call.op = "splice" /\ call.start.kind = "undefined") =>
        LET before == call.before
            l == call.l
            k == Len(Chain(before, l))
        IN
        /\ ~heap.crashed
        /\ heap.removed = before.removed
        /\ \A n \in NodeIds(before) : heap.nodes[n].list = before.nodes[n].list
        /\ NewAndEmpty(before, heap, call.ret)
        /\ SubSeq(Chain(heap, l), 1, k) = Chain(before, l)
        /\ Contents(heap, l) = Contents(before, l) \o call.items
        /\ getLength(heap, l) = k + Len(call.items)
        /\ isEmpty(before, l) => Contents(heap, l) = call.items

\* splice(undefined, 2, x, y) on a list of two has left a list of four.
C13_Witness ==
    /\ call.op = "splice"
    /\ call.start.kind = "undefined" /\ call.deleteCount = 2 /\ Len(call.items) = 2
    /\ getLength(call.before, call.l) = 2
    /\ getLength(heap, call.l) = 4

\* C14: splice with a start node whose owner is not this list (a node of another
\* list, or a removed node) does nothing, for every deleteCount and every item
\* tuple: it returns an empty list, and this list, the list that owns the node and
\* every node are as they were.
C14_SpliceNotOwned ==
    (call.op = "splice" /\ call.start.kind = "node"
        /\ call.before.nodes[call.start.v].list # call.l) =>
            /\ Untouched(call.before, heap)
            /\ NewAndEmpty(call.before, heap, call.ret)
            /\ Contents(heap, call.l) = Contents(call.before, call.l)
            /\ getLength(heap, call.l) = getLength(call.before, call.l)

\* splice(node of another list, 1, x) was called on a non-empty list.
C14_Witness ==
    /\ call.op = "splice"
    /\ call.start.kind = "node" /\ call.deleteCount = 1 /\ Len(call.items) = 1
    /\ call.before.nodes[call.start.v].list \notin {call.l, None}
    /\ ~isEmpty(call.before, call.l)
    /\ getLength(heap, call.ret) = 0

\* C15: node-form splice is index-form splice.  For every list, every valid index i,
\* every deleteCount and every item tuple, splice(getNodeAt(i), d, ...xs) leaves the
\* same sequence and returns the same removed sequence as splice(i, d, ...xs) does
\* on an equal list.
C15_SpliceNode ==
    (call.op = "splice" /\ call.start.kind = "node"
        /\ call.before.nodes[call.start.v].list = call.l) =>
            /\ \E i \in Indexes(call.before, call.l) :
                   getNodeAt(call.before, call.l, i) = call.start.v
            /\ \A i \in Indexes(call.before, call.l) :
                   getNodeAt(call.before, call.l, i) = call.start.v =>
                       LET r == splice(call.before, call.l, StartNumber(i),
                                       call.deleteCount, call.items)
                       IN /\ ~heap.crashed
                          /\ Contents(heap, call.l) = Contents(r.w, call.l)
                          /\ Contents(heap, call.ret) = Contents(r.w, r.ret)
                          /\ Chain(heap, call.l) = Chain(r.w, call.l)
                          /\ getLength(heap, call.l) = getLength(r.w, call.l)
                          /\ getLength(heap, call.ret) = getLength(r.w, r.ret)

\* splice(getNodeAt(1), 1, x) on a list of three has returned a list of one.
C15_Witness ==
    /\ call.op = "splice"
    /\ call.start.kind = "node" /\ call.deleteCount = 1 /\ Len(call.items) = 1
    /\ getLength(call.before, call.l) = 3
    /\ call.start.v = getNodeAt(call.before, call.l, 1)
    /\ getLength(heap, call.ret) = 1

\* C16: a negative deleteCount is taken as 0: nothing is removed, the returned list
\* is empty and the items are inserted at the start position; this holds in the
\* class-node list, which takes Math.max(0, deleteCount), and in the tuple-node
\* list, which leaves it to the loop condition i < deleteCount.
C16_SpliceNegativeCount ==
    (call.op = "splice" /\ call.deleteCount < 0
        /\ ~(call.start.kind = "node" /\ call.before.nodes[call.start.v].list # call.l)) =>
            LET before == call.before
                l == call.l
                a == Contents(before, l)
                at == IF call.start.kind = "undefined" THEN Len(a)
                      ELSE IF call.start.kind = "number" THEN ArrayStart(Len(a), call.start.v)
                      ELSE PositionOf(before, l, call.start.v)
                zero == splice(before, l, call.start, 0, call.items)
            IN
            /\ ~heap.crashed
            /\ heap.removed = before.removed
            /\ \A n \in NodeIds(before) : heap.nodes[n].list = before.nodes[n].list
            /\ NewAndEmpty(before, heap, call.ret)
            /\ Contents(heap, l) = SubSeq(a, 1, at) \o call.items \o SubSeq(a, at + 1, Len(a))
            /\ getLength(heap, l) = Len(a) + Len(call.items)
            /\ heap = zero.w /\ call.ret = zero.ret

\* splice(1, -1, x) on a list of three has left a list of four.
C16_Witness ==
    /\ call.op = "splice"
    /\ call.start = StartNumber(1) /\ call.deleteCount < 0 /\ Len(call.items) = 1
    /\ getLength(call.before, call.l) = 3
    /\ getLength(heap, call.l) = 4

\* C17: splice(i, 0) without items never changes the list, for every integer i, in
\* range, negative, below -length, or at or above length: head, tail, length, the
\* links and owner of every node and the cached array are as they were, and the
\* returned list is empty.
C17_SpliceNothing ==
    (call.op = "splice" /\ call.start.kind = "number"
        /\ call.deleteCount = 0 /\ call.items = <<>>) =>
            /\ Untouched(call.before, heap)
            /\ NewAndEmpty(call.before, heap, call.ret)

\* splice(i, 0) with i below -length was called on a list of three holding a cached
\* array.
C17_Witness ==
    /\ call.op = "splice"
    /\ call.start.kind = "number" /\ call.deleteCount = 0 /\ call.items = <<>>
    /\ getLength(call.before, call.l) = 3
    /\ call.start.v < 0 - 3
    /\ call.before.lists[call.l].allValues # Undefined
    /\ heap.lists[call.l].allValues # Undefined

\* C18: for every list and every integer index, with k = index if index >= 0 and
\* k = length + index otherwise, getNodeAt(index) is the node reached from head by
\* following next exactly k times if 0 <= k < length, and undefined otherwise (so for
\* every index on an empty list); get(index) is that node's value, or undefined;
\* getNodeAt(0) is the head and getNodeAt(-1) the tail.
C18_GetNodeAt ==
    \A l \in ListIds(heap) :
        /\ \A index \in Indexes(heap, l) :
               LET k == IF index >= 0 THEN index ELSE getLength(heap, l) + index
                   node == getNodeAt(heap, l, index)
               IN IF 0 <= k /\ k < getLength(heap, l)
                  THEN /\ node # None
                       /\ node = Chain(heap, l)[k + 1]
                       /\ get(heap, l, index) = Some(heap.nodes[node].value)
                  ELSE /\ node = None
                       /\ get(heap, l, index) = Undefined
        /\ getNodeAt(heap, l, 0) = getHead(heap, l)
        /\ getNodeAt(heap, l, 0 - 1) = getTail(heap, l)

\* A list of three nodes whose head is the newest node, beside an empty list: index 2
\* and index -3 are in range, index 3 and index -4 are not.
C18_Witness ==
    /\ \E l \in ListIds(heap) : isEmpty(heap, l) /\ getNodeAt(heap, l, 0) = None
    /\ \E l \in ListIds(heap) :
           /\ getLength(heap, l) = 3
           /\ getHead(heap, l) = Len(heap.nodes)
           /\ getNodeAt(heap, l, 2) = getTail(heap, l)
           /\ getNodeAt(heap, l, 0 - 3) = getHead(heap, l)
           /\ getNodeAt(heap, l, 3) = None
           /\ getNodeAt(heap, l, 0 - 4) = None

\* C19: pop() on a non-empty list returns the value of the tail and removes exactly
\* that node (the new tail is its predecessor, length is one less); pop() on an
\* empty list returns undefined and changes nothing.  So values pushed with push and
\* taken back with pop alone come out in the reverse of the order they went in (for
\* every tuple of values that fits in MaxNodes).
C19_Pop ==
    \A l \in ListIds(heap) :
        /\ LET r == pop(heap, l)
               tail == getTail(heap, l)
           IN IF isEmpty(heap, l)
              THEN r = [w |-> heap, ret |-> Undefined]
              ELSE /\ ~r.w.crashed
                   /\ r.ret = Some(heap.nodes[tail].value)
                   /\ Chain(r.w, l) = SubSeq(Chain(heap, l), 1, Len(Chain(heap, l)) - 1)
                   /\ ChainBack(r.w, l) = Tail(ChainBack(heap, l))
                   /\ getTail(r.w, l) = heap.nodes[tail].previousNode
                   /\ getLength(r.w, l) = getLength(heap, l) - 1
                   /\ Unlinked(r.w, tail)
                   /\ r.w.removed = heap.removed \cup {tail}
        /\ \A items \in Items :
               LET pushed == pushEach(heap, l, items, 1)
                   r == popTimes(pushed, l, Len(items))
               IN Room(Len(items), 0) =>
                  /\ ~r.w.crashed
                  /\ r.ret = Reverse([i \in 1..Len(items) |-> Some(items[i])])
                  /\ Chain(r.w, l) = Chain(heap, l)

\* A list of one node beside an empty list, with room to push two values: pop
\* returns the node's value on the one and undefined on the other, and two pushes
\* followed by two pops return two values.
C19_Witness ==
    /\ \E l \in ListIds(heap) : isEmpty(heap, l) /\ pop(heap, l).ret = Undefined
    /\ \E l \in ListIds(heap) :
           /\ getLength(heap, l) = 1
           /\ pop(heap, l).ret # Undefined
           /\ LET pushed == pushEach(heap, l, <<"a", "b">>, 1)
              IN Fits(pushed) /\ popTimes(pushed, l, 2).ret = <<Some("b"), Some("a")>>

\* What shift() does to heap w, on every list: on a non-empty list it returns the
\* value of the head and removes exactly that node (the new head is its successor,
\* length is one less); on an empty list it returns undefined and changes nothing.
ShiftContract(w) ==
    \A l \in ListIds(w) :
        LET r == shift(w, l)
            head == getHead(w, l)
        IN IF isEmpty(w, l)
           THEN r = [w |-> w, ret |-> Undefined]
           ELSE /\ ~r.w.crashed
                /\ r.ret = Some(w.nodes[head].value)
                /\ Chain(r.w, l) = Tail(Chain(w, l))
                /\ ChainBack(r.w, l) = SubSeq(ChainBack(w, l), 1, Len(ChainBack(w, l)) - 1)
                /\ getHead(r.w, l) = w.nodes[head].nextNode
                /\ getLength(r.w, l) = getLength(w, l) - 1
                /\ Unlinked(r.w, head)
                /\ r.w.removed = w.removed \cup {head}

\* C20: shift() on a non-empty list returns the value of the head and removes exactly
\* that node (the new head is its successor, length is one less); shift() on an empty
\* list returns undefined and changes nothing.  So, for any interleaving of push and
\* shift calls, the values shift has returned are a prefix of the values pushed, and
\* the list holds the rest.
C20_ShiftFifo ==
    /\ ShiftContract(heap)
    /\ Len(fifo.shifted) <= Len(fifo.pushed)
    /\ fifo.shifted = SubSeq(fifo.pushed, 1, Len(fifo.shifted))
    /\ heap.lists # <<>> =>
           Contents(heap, 1) = SubSeq(fifo.pushed, Len(fifo.shifted) + 1, Len(fifo.pushed))

\* Three values have been pushed, the first two different, and shift has returned
\* two of them: the list holds the third node alone.
C20_Witness ==
    /\ Len(fifo.pushed) = 3
    /\ fifo.pushed[1] # fifo.pushed[2]
    /\ Len(fifo.shifted) = 2
    /\ getLength(heap, 1) = 1
    /\ getHead(heap, 1) = 3

\* C21: clear() ends on every list, after exactly length removals, and leaves
\* length = 0, head and tail undefined and every node that was in the list with
\* previous, next and owner undefined; clear() on an empty list changes nothing.
C21_Clear ==
    \A l \in ListIds(heap) :
        LET r == clear(heap, l) IN
        /\ ~r.w.crashed
        /\ Cardinality(r.w.removed \ heap.removed) = getLength(heap, l)
        /\ r.w.removed \ heap.removed = Range(Chain(heap, l))
        /\ getLength(r.w, l) = 0
        /\ getHead(r.w, l) = None /\ getTail(r.w, l) = None /\ isEmpty(r.w, l)
        /\ \A n \in Range(Chain(heap, l)) : Unlinked(r.w, n)
        /\ \A n \in NodeIds(heap) \ Range(Chain(heap, l)) : r.w.nodes[n] = heap.nodes[n]
        /\ \A m \in ListIds(heap) \ {l} : r.w.lists[m] = heap.lists[m]
        /\ isEmpty(heap, l) => r.w = heap

\* A list of two nodes beside an empty list: clear removes two nodes from the one and
\* nothing from the other.
C21_Witness ==
    /\ \E l \in ListIds(heap) : isEmpty(heap, l) /\ clear(heap, l).w = heap
    /\ \E l \in ListIds(heap) :
           /\ getLength(heap, l) = 2
           /\ Cardinality(clear(heap, l).w.removed \ heap.removed) = 2

\* C22: the cached array of every list is either undefined or equal to the values
\* read from head to tail, so toArray(), after any sequence of mutations and earlier
\* toArray() calls, returns the current sequence and never a stale one.
C22_CacheCoherent ==
    \A l \in ListIds(heap) :
        /\ heap.lists[l].allValues # Undefined =>
               heap.lists[l].allValues = Some(Contents(heap, l))
        /\ toArray(heap, l).ret = Contents(heap, l)
        /\ toArray(toArray(heap, l).w, l).ret = Contents(heap, l)

\* After a removal a list of two nodes holds a cached array again, beside a list that
\* holds none.
C22_Witness ==
    /\ heap.removed # {}
    /\ \E l \in ListIds(heap) :
           getLength(heap, l) = 2 /\ heap.lists[l].allValues # Undefined
    /\ \E l \in ListIds(heap) : heap.lists[l].allValues = Undefined

\* C23: round trip.  For every list L reached by any sequence of operations, a new
\* list constructed from the elements of L.toArray() (the constructor appends them in
\* order) has a toArray() identical to L.toArray().
C23_RoundTrip ==
    \A l \in ListIds(heap) :
        LET first == toArray(heap, l)
            made == constructor(first.w, first.ret)
            second == toArray(made.w, made.ret)
        IN /\ ~made.w.crashed
           /\ made.ret \notin ListIds(heap)
           /\ second.ret = first.ret
           /\ getLength(made.w, made.ret) = getLength(heap, l)
           /\ toArray(second.w, l).ret = first.ret

\* A list of three values, the first and the last different, holds a cached array:
\* the list constructed from that array has an array of three elements.
C23_Witness ==
    \E l \in ListIds(heap) :
        /\ getLength(heap, l) = 3
        /\ heap.lists[l].allValues # Undefined
        /\ toArray(heap, l).ret[1] # toArray(heap, l).ret[3]
        /\ Len(toArray(constructor(heap, toArray(heap, l).ret).w, Len(heap.lists) + 1).ret) = 3

\* The nodes a splice call is to delete: the span of deleteCount nodes from the start
\* position, as far as there are nodes; none for a start that is undefined or a node
\* the list does not own.
SpliceSpan(w, l, start, deleteCount) ==
    LET chain == Chain(w, l)
        at == IF start.kind = "number" THEN ArrayStart(Len(chain), start.v)
              ELSE IF start.kind = "node" /\ w.nodes[start.v].list = l
              THEN PositionOf(w, l, start.v)
              ELSE Len(chain)
    IN {chain[i] : i \in (at + 1)..Min(at + Max(deleteCount, 0), Len(chain))}

\* The nodes list l owned before, but for the deleted ones, are owned by l after,
\* with the value they had and in the order they had; no node's value has changed.
Survive(before, after, l, deleted) ==
    /\ ~after.crashed
    /\ \A n \in NodeIds(before) : after.nodes[n].value = before.nodes[n].value
    /\ \A n \in OwnedBy(before, l) \ deleted : after.nodes[n].list = l
    /\ SelectSeq(Chain(after, l), LAMBDA n : n \in NodeIds(before))
           = SelectSeq(Chain(before, l), LAMBDA n : n \notin deleted)

\* The nodes the recorded call was to delete from its list
Deleted ==
    IF call.op = "remove" THEN {call.node} \cap OwnedBy(call.before, call.l)
    ELSE IF call.op = "pop" THEN {getTail(call.before, call.l)} \ {None}
    ELSE IF call.op = "shift" THEN {getHead(call.before, call.l)} \ {None}
    ELSE IF call.op = "splice"
    THEN SpliceSpan(call.before, call.l, call.start, call.deleteCount)
    ELSE {}

\* C24: node reference stability.  For any node n owned by list L and any operation
\* on L that does not delete n (append, prepend, insertAfterNode, insertBeforeNode,
\* remove, pop or shift of another node, splice whose deleted span does not hold n),
\* n stays owned by L with its value unchanged, and any two nodes that both survive
\* an operation keep their relative order.
C24_NodesSurvive ==
    call.op # "none" =>
        /\ Survive(call.before, heap, call.l, Deleted)
        /\ \A l \in ListIds(call.before) \ {call.l} : Survive(call.before, heap, l, {})
        /\ heap.removed = call.before.removed \cup Deleted

\* remove was called on the middle node of a list of three: the head and the tail
\* are still there.
C24_Witness ==
    /\ call.op = "remove"
    /\ getLength(call.before, call.l) = 3
    /\ call.node = getNodeAt(call.before, call.l, 1)
    /\ Chain(heap, call.l) = <<getHead(call.before, call.l), getTail(call.before, call.l)>>

\* C25: no operation has a crash path.  In every sequence of public operations whose
\* node arguments are nodes some list has returned (still owned, removed, or owned by
\* another list) no operation dereferences an undefined neighbour: the middle branch
\* of remove finds node.previous and node.next defined, and the non-boundary branch
\* of insertAfterNode and insertBeforeNode finds the neighbour it rewires defined.
C25_NoCrash ==
    /\ ~heap.crashed
    /\ \A l \in ListIds(heap) :
           /\ \A n \in OwnedBy(heap, l) :
                  /\ n # getHead(heap, l) => heap.nodes[n].previousNode # None
                  /\ n # getTail(heap, l) => heap.nodes[n].nextNode # None
           /\ \A n \in NodeIds(heap) :
                  /\ ~remove(heap, l, n).w.crashed
                  /\ \A v \in Values :
                         /\ ~insertAfterNode(heap, l, n, v).w.crashed
                         /\ ~insertBeforeNode(heap, l, n, v).w.crashed
                  /\ \A d \in {0, 1} : ~splice(heap, l, StartNode(n), d, <<>>).w.crashed
           /\ \A v \in Values :
                  ~append(heap, l, v).w.crashed /\ ~prepend(heap, l, v).w.crashed
           /\ ~pop(heap, l).w.crashed
           /\ ~shift(heap, l).w.crashed
           /\ ~clear(heap, l).w.crashed

\* A list of three nodes: its middle node can be removed and a node inserted on
\* either side of it.
C25_Witness ==
    \E l \in ListIds(heap), v \in Values :
        /\ getLength(heap, l) = 3
        /\ LET middle == getNodeAt(heap, l, 1)
           IN /\ remove(heap, l, middle).ret = TRUE
              /\ insertAfterNode(heap, l, middle, v).ret # None
              /\ insertBeforeNode(heap, l, middle, v).ret # None

\* C26: on a list that is not mutated during the iteration, an iterator yields the
\* values from head to tail in order and then reports done; every call of the
\* iteration protocol makes a fresh iterator, so two iterators over the same list each
\* yield the whole sequence however their calls of next are interleaved.
C26_Iteration ==
    \A k \in Iterators :
        iter[k].made =>
            LET all == Contents(heap, iter[k].l)
                nodes == Chain(heap, iter[k].l)
                n == Len(iter[k].yielded)
            IN /\ n <= Len(all)
               /\ iter[k].yielded = SubSeq(all, 1, n)
               /\ iter[k].current = IF n < Len(all) THEN nodes[n + 1] ELSE None
               /\ iter[k].done => n = Len(all)
               /\ n = Len(all) => next(heap, iter[k].current).ret.done

\* Two iterators over the same list of three values, the first and last different:
\* one has reported done after yielding all three, the other has yielded one so far.
C26_Witness ==
    /\ iter[1].made /\ iter[2].made /\ iter[1].l = iter[2].l
    /\ getLength(heap, iter[1].l) = 3
    /\ Contents(heap, iter[1].l)[1] # Contents(heap, iter[1].l)[3]
    /\ iter[1].done /\ iter[1].yielded = Contents(heap, iter[1].l)
    /\ ~iter[2].done /\ Len(iter[2].yielded) = 1

\* What the heap and one iterator show of a call of next() that has returned a value:
\* the cursor held a node, the value of that node is the one yielded, and the cursor
\* has moved to the next pointer that node had at the call.
YieldsCurrent(k) ==
    /\ iter[k].current # None
    /\ iter'[k].yielded = Append(iter[k].yielded, heap.nodes[iter[k].current].value)
    /\ iter'[k].current = heap.nodes[iter[k].current].nextNode
    /\ ~iter'[k].done

\* ... and of one that has reported done: the cursor held no node, and holds none.
ReportsDone(k) ==
    /\ iter[k].current = None
    /\ iter'[k].current = None
    /\ iter'[k].yielded = iter[k].yielded

\* C27: mutations of the list between an iterator's calls of next() never make next()
\* fail.  The cursor is always undefined or a node there is (owned, removed or moved
\* to another position), no call ends on an error, and every call of next() either
\* reports done or yields the value of the node the cursor holds and moves the cursor
\* to that node's next pointer as it is at the call; when that pointer is undefined
\* the next call reports done, however many nodes the list still has.
C27_NextNeverFails ==
    /\ [](~heap.crashed)
    /\ [](\A k \in Iterators : iter[k].current \in NodeIds(heap) \cup {None})
    /\ [](\A k \in Iterators : iter[k].done => iter[k].current = None)
    /\ [][\A k \in Iterators :
             /\ heap' # heap => iter' = iter
             /\ (iter[k].made /\ Len(iter'[k].yielded) > Len(iter[k].yielded))
                    => YieldsCurrent(k) /\ heap' = heap
             /\ (iter[k].made /\ iter'[k].done /\ ~iter[k].done)
                    => ReportsDone(k) /\ heap' = heap]_vars

\* The iteration has ended early: the iterator reported done after yielding one value
\* of a list that has two values now, the node it had yielded having been removed
\* before the next call.
C27_Witness ==
    /\ iter[1].made /\ iter[1].done
    /\ Len(iter[1].yielded) = 1
    /\ getLength(heap, iter[1].l) = 2
    /\ heap.removed # {}

\* C28: map(callback) returns a new list whose value at every position i, from head
\* to tail, is callback(value at i, i, the list), and whose length is that of the list
\* it reads; it leaves that list's sequence, length, nodes and cached array as they
\* were, and every other node and list too.
C28_Map ==
    call.op = "map" =>
        LET source == Contents(call.before, call.l)
            made == Contents(heap, call.ret)
        IN /\ Untouched(call.before, heap)
           /\ call.ret \in ListIds(heap) \ ListIds(call.before)
           /\ Len(heap.lists) = Len(call.before.lists) + 1
           /\ Len(made) = Len(source)
           /\ \A i \in 0..(Len(source) - 1) : made[i + 1] = call.callback[<<source[i + 1], i>>]
           /\ getLength(heap, call.ret) = getLength(call.before, call.l)
           /\ toArray(heap, call.ret).ret = made
           /\ Range(Chain(heap, call.ret)) = NodeIds(heap) \ NodeIds(call.before)
           /\ OwnedBy(heap, call.ret) = Range(Chain(heap, call.ret))
           /\ Reverse(ChainBack(heap, call.ret)) = Chain(heap, call.ret)
           /\ Chain(heap, call.l) = Chain(call.before, call.l)
           /\ Contents(heap, call.l) = source
           /\ toArray(heap, call.l).ret = source

\* map was called on a list of three equal values that holds a cached array, with a
\* callback that tells the positions apart: the list made is not a copy.
C28_Witness ==
    /\ call.op = "map"
    /\ call.before.lists[call.l].allValues = Some(<<"a", "a", "a">>)
    /\ heap.lists[call.l].allValues = Some(<<"a", "a", "a">>)
    /\ Contents(heap, call.ret) = <<"b", "a", "b">>

\* C29: indexOf(value, fromIndex) returns the smallest position, at or after
\* fromIndex and within the list, whose element equals value, and -1 when there is
\* none (fromIndex at or past the length, or an empty list, included);
\* includes(value, fromIndex) is true exactly when indexOf(value, fromIndex) is not
\* -1; neither changes anything.
C29_IndexOf ==
    \A l \in ListIds(heap), value \in Values : \A fromIndex \in Indexes(heap, l) :
        LET all == Contents(heap, l)
            found == {i \in 0..(Len(all) - 1) : i >= fromIndex /\ all[i + 1] = value}
            r == indexOf(heap, l, value, fromIndex)
            has == includes(heap, l, value, fromIndex)
        IN /\ r.w = heap
           /\ has.w = heap
           /\ found = {} => r.ret = 0 - 1
           /\ found # {} => r.ret \in found /\ \A i \in found : r.ret <= i
           /\ has.ret = (r.ret # 0 - 1)
           /\ has.ret = (found # {})
           /\ (fromIndex >= getLength(heap, l) \/ isEmpty(heap, l)) => r.ret = 0 - 1

\* The list a, b, a beside an empty list: from position 1 the first a is at 2, from a
\* negative position at 0, from position 3 there is none; the empty list has none.
C29_Witness ==
    \E l, e \in ListIds(heap) :
        /\ Contents(heap, l) = <<"a", "b", "a">>
        /\ indexOf(heap, l, "a", 1).ret = 2
        /\ indexOf(heap, l, "a", 0 - 2).ret = 0
        /\ indexOf(heap, l, "a", 3).ret = 0 - 1
        /\ ~includes(heap, l, "a", 3).ret
        /\ includes(heap, l, "b", 1).ret
        /\ isEmpty(heap, e)
        /\ indexOf(heap, e, "a", 0).ret = 0 - 1

\* The keys the map of the cache holds a node for
Mapped == {key \in Keys : lru.map[key] # None}

\* C30: the LRU cache built on the list.  For every capacity from 1 and every sequence
\* of get and set calls, after each call the list is no longer than the capacity, the
\* keys of the map are the keys stored in the list, none of them stored twice, and
\* every node the map holds is owned by the list (and stores the key it is held for).
C30_LruCache ==
    lru.made =>
        LET stored == Contents(heap, lru.list)
        IN /\ ~heap.crashed
           /\ getLength(heap, lru.list) <= lru.capacity
           /\ getLength(heap, lru.list) = Len(stored)
           /\ Mapped = {stored[i].key : i \in DOMAIN stored}
           /\ Cardinality(Mapped) = Len(stored)
           /\ \A key \in Mapped :
                  /\ lru.map[key] \in Range(Chain(heap, lru.list))
                  /\ heap.nodes[lru.map[key]].list = lru.list
                  /\ heap.nodes[lru.map[key]].value.key = key

\* The use the README shows: a cache of capacity 3, a, b and c set, a read, d set.  The
\* list holds d, a, c; b has been evicted and is not in the map; the node a was first
\* stored in is a removed node, and the map holds the newer one.
C30_Witness ==
    /\ lru.made /\ lru.capacity = 3
    /\ [i \in 1..getLength(heap, lru.list) |-> Contents(heap, lru.list)[i].key] = <<"d", "a", "c">>
    /\ Mapped = {"a", "c", "d"}
    /\ LRUCache_get(heap, lru, "b").ret = Undefined
    /\ \E n \in heap.removed : heap.nodes[n].value.key = "b"
    /\ \E n \in heap.removed : heap.nodes[n].value.key = "a"

\* The keys stored in the list of the cache, from head to tail
StoredKeys == [i \in 1..Len(Contents(heap, lru.list)) |-> Contents(heap, lru.list)[i].key]

\* C31: in the LRU cache, after every sequence of get and set calls the keys in the
\* list, from head to tail, are the keys accessed (by a get that found its key, or by
\* any set) from the most recently to the least recently accessed: the list holds the
\* most recently accessed keys, as many as it has nodes.  So the key a set of a new key
\* evicts from a full cache is the least recently accessed key of the cache, and a
\* get of a key that is not among them returns undefined.
C31_LruOrder ==
    lru.made =>
        /\ Len(StoredKeys) <= Len(call.accessed)
        /\ StoredKeys = SubSeq(call.accessed, 1, Len(StoredKeys))
        /\ Len(StoredKeys) = Min(Len(call.accessed), lru.capacity)
        /\ Cardinality(call.evicted) <= 1
        /\ call.evicted # {} =>
               /\ call.oldest # Undefined
               /\ call.evicted = {call.oldest[1]}
               /\ Len(StoredKeys) = lru.capacity
               /\ call.key \notin call.evicted
        /\ \A key \in Keys :
               (\A i \in 1..Len(StoredKeys) : StoredKeys[i] # key)
                   => LRUCache_get(heap, lru, key).ret = Undefined

\* A cache of capacity 2 holding b and a, read at a and then set at c: the set has
\* evicted b, the less recently accessed of the two, though a was stored first.
C31_Witness ==
    /\ lru.made /\ lru.capacity = 2
    /\ call.accessed = <<"c", "a", "b">>
    /\ call.evicted = {"b"}
    /\ StoredKeys = <<"c", "a">>
    /\ heap.nodes[1].value.key = "a"
    /\ LRUCache_get(heap, lru, "b").ret = Undefined

\* C32: getNodeAt resolves a valid normalized index k by the shorter path.  It walks
\* forward from the head exactly k link hops when k <= length - 1 - k, and otherwise
\* backward from the tail exactly length - 1 - k hops; the hops are always
\* min(k, length - 1 - k), and both directions arrive at the same node.
C32_ShorterPath ==
    call.op = "getNodeAt" =>
        LET length == getLength(heap, call.l)
            k == IF call.index < 0 THEN length + call.index ELSE call.index
        IN IF 0 <= k /\ k < length
           THEN /\ call.fromHead = (k <= length - 1 - k)
                /\ call.hops = IF call.fromHead THEN k ELSE length - 1 - k
                /\ call.hops = Min(k, length - 1 - k)
                /\ call.ret = Chain(heap, call.l)[k + 1]
                /\ call.ret = getNodeAt(heap, call.l, call.index)
                /\ walkNext(heap, getHead(heap, call.l), k) = call.ret
                /\ walkPrevious(heap, getTail(heap, call.l), length - 1 - k) = call.ret
           ELSE call.ret = None /\ call.hops = 0

\* On a list of five values index 3 was resolved from the tail in one hop, where the
\* walk from the head takes three.
C32_Witness ==
    /\ call.op = "getNodeAt"
    /\ getLength(heap, call.l) = 5
    /\ call.index = 3
    /\ ~call.fromHead
    /\ call.hops = 1
    /\ hopsNext(heap, getHead(heap, call.l), 3) = 3
    /\ call.ret = Chain(heap, call.l)[4]

\* C33: splice inserts at the surviving node.  When a node F follows the deleted span
\* (the start node itself when deleteCount <= 0), splice inserts its k >= 1 items as k
\* new consecutive nodes, in argument order, immediately before F: afterwards
\* F.previous is the node of the last item, the node of the first item has the
\* surviving predecessor F had (or is the new head), and F keeps its identity, value
\* and owner.  When no node follows, the items are appended in order at the tail.
C33_SpliceInsertsBefore ==
    (call.op = "splice" /\ Len(call.items) >= 1
        /\ ~(call.start.kind = "node" /\ call.before.nodes[call.start.v].list # call.l)) =>
            LET before == call.before
                l == call.l
                k == Len(call.items)
                chain == Chain(before, l)
                span == SpliceSpan(before, l, call.start, call.deleteCount)
                at == IF call.start.kind = "number" THEN ArrayStart(Len(chain), call.start.v)
                      ELSE IF call.start.kind = "node" THEN PositionOf(before, l, call.start.v)
                      ELSE Len(chain)
                follows == at + Cardinality(span) + 1
                predecessor == IF at = 0 THEN None ELSE chain[at]
                after == Chain(heap, l)
                first == IF follows <= Len(chain)
                         THEN PositionOf(heap, l, chain[follows]) - k + 1
                         ELSE Len(after) - k + 1
                made == SubSeq(after, first, first + k - 1)
            IN /\ ~heap.crashed
               /\ first >= 1
               /\ Len(made) = k
               /\ \A i \in 1..k :
                      /\ made[i] \notin NodeIds(before)
                      /\ heap.nodes[made[i]].value = call.items[i]
                      /\ heap.nodes[made[i]].list = l
                      /\ i < k => heap.nodes[made[i]].nextNode = made[i + 1]
                      /\ i > 1 => heap.nodes[made[i]].previousNode = made[i - 1]
               /\ heap.nodes[made[1]].previousNode = predecessor
               /\ predecessor = None => getHead(heap, l) = made[1]
               /\ predecessor # None => heap.nodes[predecessor].nextNode = made[1]
               /\ IF follows <= Len(chain)
                  THEN LET F == chain[follows]
                       IN /\ heap.nodes[F].previousNode = made[k]
                          /\ heap.nodes[made[k]].nextNode = F
                          /\ heap.nodes[F].list = l
                          /\ heap.nodes[F].value = before.nodes[F].value
                          /\ heap.nodes[F].nextNode = before.nodes[F].nextNode
                          /\ call.deleteCount <= 0 /\ call.start.kind = "node"
                                 => F = call.start.v
                  ELSE /\ getTail(heap, l) = made[k]
                       /\ heap.nodes[made[k]].nextNode = None

\* splice(head, 1, a, b) on a list of three values: the two items stand, in order, as
\* the new head and its successor, before the node that followed the deleted head.
C33_Witness ==
    /\ call.op = "splice"
    /\ call.start.kind = "node" /\ call.deleteCount = 1 /\ call.items = <<"a", "b">>
    /\ getLength(call.before, call.l) = 3
    /\ call.start.v = getHead(call.before, call.l)
    /\ LET F == call.before.nodes[call.start.v].nextNode
       IN /\ heap.nodes[F].list = call.l
          /\ heap.nodes[heap.nodes[F].previousNode].value = "b"
          /\ heap.nodes[getHead(heap, call.l)].value = "a"
          /\ heap.nodes[getHead(heap, call.l)].nextNode = heap.nodes[F].previousNode

\* C34: the undo/redo manager built on the list.  After every sequence of execute, undo
\* and redo calls the current node, when defined, is owned by the history list (and
\* it is defined once a state has been executed).  Immediately after execute(s) the
\* current node is the tail of the history and holds s, it stands right after the
\* node that was current, every state that followed that node has been removed, and
\* redo() returns undefined.
C34_UndoRedo ==
    manager.made =>
        /\ ~heap.crashed
        /\ manager.current # None =>
               /\ heap.nodes[manager.current].list = manager.history
               /\ manager.current \in Range(Chain(heap, manager.history))
        /\ manager.current = None => isEmpty(heap, manager.history)
        /\ call.op = "execute" =>
               /\ manager.current = getTail(heap, manager.history)
               /\ manager.current \notin Range(call.followed) \cup {call.previous}
               /\ heap.nodes[manager.current].value = call.state
               /\ heap.nodes[manager.current].previousNode = call.previous
               /\ call.previous # None =>
                      heap.nodes[call.previous].nextNode = manager.current
               /\ \A n \in Range(call.followed) :
                      n \in heap.removed /\ Unlinked(heap, n)
               /\ Range(call.followed) \cap Range(Chain(heap, manager.history)) = {}
               /\ UndoRedoManager_redo(heap, manager).ret = Undefined
        /\ call.op = "undo" /\ call.ret # Undefined =>
               call.ret = Some(heap.nodes[manager.current].value)
        /\ call.op = "redo" /\ call.ret # Undefined =>
               call.ret = Some(heap.nodes[manager.current].value)

\* A state was executed after two undos: the two states that followed the current
\* node have been removed, and the history is the first state and the new one.
C34_Witness ==
    /\ manager.made
    /\ call.op = "execute"
    /\ Len(call.followed) = 2
    /\ call.previous = getHead(heap, manager.history)
    /\ getLength(heap, manager.history) = 2
    /\ UndoRedoManager_undo(heap, manager).ret # Undefined

\* List B and the nodes it owns are in after as they were in before: head, tail,
\* length, sequence, and the previous, next, owner and value of each node.
Isolated(before, after, B) ==
    /\ ~after.crashed
    /\ after.lists[B] = before.lists[B]
    /\ Chain(after, B) = Chain(before, B)
    /\ Contents(after, B) = Contents(before, B)
    /\ OwnedBy(after, B) = OwnedBy(before, B)
    /\ \A n \in OwnedBy(before, B) : after.nodes[n] = before.nodes[n]

\* C35: cross-list isolation.  For two distinct lists A and B, no operation called on
\* A, with any arguments, nodes B owns among them, changes B's head, tail, length or
\* sequence, or the previous, next or owner of any node B owns; a call given a node of
\* B as its node argument does nothing at all.
C35_Isolation ==
    call.op # "none" =>
        /\ Isolated(call.before, heap, 2)
        /\ (call.op \in {"remove", "insertAfterNode", "insertBeforeNode"}
                /\ call.before.nodes[call.node].list = 2) =>
               /\ heap = call.before
               /\ call.ret = IF call.op = "remove" THEN FALSE ELSE None
        /\ (call.op = "splice" /\ call.start.kind = "node"
                /\ call.before.nodes[call.start.v].list = 2) =>
               /\ Untouched(call.before, heap)
               /\ NewAndEmpty(call.before, heap, call.ret)

\* insertBeforeNode was called on a list of two values with the middle node of the
\* other list, which has a neighbour on either side, and returned undefined.
C35_Witness ==
    /\ call.op = "insertBeforeNode"
    /\ getLength(call.before, 1) = 2
    /\ call.before.nodes[call.node].list = 2
    /\ call.before.nodes[call.node].previousNode # None
    /\ call.before.nodes[call.node].nextNode # None
    /\ call.ret = None

\* The nodes without an owner are out of every list: each has been removed, has no
\* previous and no next, is no list's head or tail, is met from no head or tail, and
\* is no node's neighbour; and an insertion of its value makes a node that did not
\* exist and leaves the removed node as it is.
RemovedStayOut ==
    \A n \in NodeIds(heap) : heap.nodes[n].list = None =>
        /\ n \in heap.removed
        /\ Unlinked(heap, n)
        /\ \A m \in NodeIds(heap) :
               heap.nodes[m].previousNode # n /\ heap.nodes[m].nextNode # n
        /\ \A l \in ListIds(heap) :
               /\ heap.lists[l].firstNode # n /\ heap.lists[l].lastNode # n
               /\ n \notin Range(Chain(heap, l)) \cup Range(ChainBack(heap, l))
               /\ \A r \in {append(heap, l, heap.nodes[n].value),
                             prepend(heap, l, heap.nodes[n].value)} :
                      /\ r.ret \notin NodeIds(heap)
                      /\ r.w.nodes[r.ret].list = l
                      /\ r.w.nodes[n] = heap.nodes[n]
                      /\ n \notin Range(Chain(r.w, l))

\* A step leaves every node that has no owner exactly as it is, and removed.
RemovedStayRemoved ==
    \A n \in NodeIds(heap) : heap.nodes[n].list = None =>
        /\ n \in NodeIds(heap')
        /\ heap'.nodes[n] = heap.nodes[n]
        /\ n \in heap'.removed

\* C36: removal is permanent for a node.  Once a node's owner has become undefined
\* (through remove, pop, shift, clear or a deletion of splice), no later operation on
\* any list ever sets its owner, previous or next again or makes it reachable from a
\* list's head; inserting its value again always creates a new node.
C36_RemovalPermanent ==
    /\ []RemovedStayOut
    /\ [][RemovedStayRemoved]_vars

\* A node was removed and its value inserted again: a node made later holds the value
\* of the removed node and is in a list, and the removed node is still unlinked.
C36_Witness ==
    \E n \in heap.removed : \E m \in NodeIds(heap) :
        /\ m > n
        /\ heap.nodes[m].value = heap.nodes[n].value
        /\ heap.nodes[m].list # None
        /\ m \in Range(Chain(heap, heap.nodes[m].list))
        /\ Unlinked(heap, n)

\* The heaps a further call on list l leaves: any mutating method, with any value, any
\* node there is, and for splice any start and count and up to one item.
AfterCallOn(w, l) ==
    {append(w, l, v).w : v \in Values} \cup {prepend(w, l, v).w : v \in Values}
        \cup {remove(w, l, n).w : n \in NodeIds(w)}
        \cup {insertAfterNode(w, l, n, v).w : n \in NodeIds(w), v \in Values}
        \cup {insertBeforeNode(w, l, n, v).w : n \in NodeIds(w), v \in Values}
        \cup {pop(w, l).w, shift(w, l).w, clear(w, l).w}
        \cup UNION {{splice(w, l, start, deleteCount, items).w :
                        deleteCount \in DeleteCounts(w, l), items \in {<<>>, <<"a">>}} :
                     start \in Starts(w, l)}

\* List l rejects node n: remove returns false, insertAfterNode and insertBeforeNode
\* return undefined, splice from it returns a new empty list, and nothing changes.
Rejects(w, l, n) ==
    /\ remove(w, l, n) = [w |-> w, ret |-> FALSE]
    /\ \A v \in Values :
           /\ insertAfterNode(w, l, n, v) = [w |-> w, ret |-> None]
           /\ insertBeforeNode(w, l, n, v) = [w |-> w, ret |-> None]
    /\ LET r == splice(w, l, StartNode(n), 1, <<"a">>)
       IN Untouched(w, r.w) /\ NewAndEmpty(w, r.w, r.ret)

\* C37: the list splice returns shares no nodes with the source list.  Every node
\* splice deleted ends with previous, next and owner undefined; the returned list is
\* made of newly created nodes it owns, which carry the deleted values in their order;
\* a later operation on the returned list leaves the source list and its nodes as
\* they are; and both lists reject the deleted nodes.
C37_SpliceReturnsCopies ==
    call.op = "splice" =>
        LET deleted == SelectSeq(Chain(call.before, call.l),
                                 LAMBDA n : n \in SpliceSpan(call.before, call.l,
                                                            call.start, call.deleteCount))
            returned == Chain(heap, call.ret)
        IN /\ ~heap.crashed
           /\ call.ret \in ListIds(heap) \ ListIds(call.before)
           /\ \A n \in Range(deleted) : Unlinked(heap, n) /\ n \in heap.removed
           /\ Len(returned) = Len(deleted)
           /\ getLength(heap, call.ret) = Len(deleted)
           /\ \A i \in DOMAIN returned :
                  /\ returned[i] \notin NodeIds(call.before)
                  /\ heap.nodes[returned[i]].list = call.ret
                  /\ heap.nodes[returned[i]].value = call.before.nodes[deleted[i]].value
                  /\ \A j \in DOMAIN returned : returned[i] = returned[j] => i = j
           /\ OwnedBy(heap, call.ret) = Range(returned)
           /\ Range(returned) \cap Range(Chain(heap, call.l)) = {}
           /\ Range(returned) \cap OwnedBy(heap, call.l) = {}
           /\ \A after \in AfterCallOn(heap, call.ret) : Isolated(heap, after, call.l)
           /\ \A n \in Range(deleted) :
                  Rejects(heap, call.l, n) /\ Rejects(heap, call.ret, n)

\* splice deleted two of three nodes and inserted an item: the returned list holds
\* two new nodes, and the source list the node that is left and the item.
C37_Witness ==
    /\ call.op = "splice"
    /\ getLength(call.before, call.l) = 3
    /\ Cardinality(SpliceSpan(call.before, call.l, call.start, call.deleteCount)) = 2
    /\ getLength(heap, call.ret) = 2
    /\ Len(call.items) = 1
    /\ getLength(heap, call.l) = 2

\* The iterator holds a node that has been removed: next() yields the value the node
\* had, and the call after it reports done, whatever the list still holds.
HeldNodeRemoved ==
    (iter[1].made /\ iter[1].current # None /\ heap.nodes[iter[1].current].list = None) =>
        LET first == next(heap, iter[1].current)
            second == next(heap, first.current)
        IN /\ first.ret = [done |-> FALSE, value |-> Some(heap.nodes[iter[1].current].value)]
           /\ call.op # "none" =>
                  heap.nodes[iter[1].current].value
                      = call.before.nodes[iter[1].current].value
           /\ first.current = None
           /\ second.ret = [done |-> TRUE, value |-> Undefined]
           /\ second.current = None

\* The iterator has read an undefined next pointer, or was made on an empty list: the
\* cursor holds no node, and next() reports done.
CursorUndefined ==
    (iter[1].made /\ (iter[1].done \/ iter[1].current = None)) =>
        /\ iter[1].current = None
        /\ next(heap, iter[1].current) =
               [current |-> None, ret |-> [done |-> TRUE, value |-> Undefined]]

\* A step of an iterator whose cursor holds no node leaves the cursor so and yields
\* nothing, and done stays reported; a call of next() on a removed node yields its
\* value and leaves the cursor undefined.
StaysDone ==
    /\ (iter[1].made /\ iter[1].current = None) =>
           /\ iter'[1].made
           /\ iter'[1].current = None
           /\ iter'[1].yielded = iter[1].yielded
           /\ iter[1].done => iter'[1].done
           /\ iter'[1] # iter[1] => iter'[1].done
    /\ (iter[1].made /\ iter[1].current # None /\ iter'[1] # iter[1]
            /\ heap.nodes[iter[1].current].list = None) =>
           /\ iter'[1].yielded = Append(iter[1].yielded, heap.nodes[iter[1].current].value)
           /\ iter'[1].current = None
           /\ ~iter'[1].done

\* C38: iterator look-ahead.  An iterator holds the node it will yield next: when that
\* node is removed from the list before the following call of next(), that call still
\* yields the removed node's value and the call after it reports done, even when other
\* nodes remain in the list; and an iterator that has read an undefined next pointer,
\* one made on an empty list among them, reports done for ever, even when values are
\* appended afterwards.
C38_LookAhead ==
    /\ []HeldNodeRemoved
    /\ []CursorUndefined
    /\ [][StaysDone]_vars

\* The iteration of a list of three values has ended after two: the second node was
\* removed while the iterator held it, its value was yielded all the same, and the
\* third node, still in the list, never was.
C38_Witness ==
    /\ iter[1].made /\ iter[1].done
    /\ call.op = "remove" /\ call.ret = TRUE
    /\ getLength(call.before, 1) = 3
    /\ Len(iter[1].yielded) = 2
    /\ iter[1].yielded[2] = heap.nodes[call.node].value
    /\ call.node = Chain(call.before, 1)[2]
    /\ getLength(heap, 1) = 2

\* The class-node heap without what the tuple-node heap has no counterpart of: the
\* cached arrays.
WithoutCache(w) ==
    [w EXCEPT !.impl = "tuple",
              !.lists = [l \in DOMAIN w.lists |-> [w.lists[l] EXCEPT !.allValues = Undefined]]]

\* C39: the two implementations of index.ts, the class-node list with a cached toArray
\* and the tuple-node list without a cache, are observationally equivalent.  Run side
\* by side on the same sequence of public operations with corresponding node
\* arguments, they return the same results at every step and hold the same value
\* sequence, length, head and tail in every list, and the same owner, neighbours and
\* value in every node.
C39_Equivalent ==
    call.op = "pair" =>
        /\ heap.impl = "class" /\ call.other.impl = "tuple"
        /\ call.same
        /\ ~heap.crashed /\ ~call.other.crashed
        /\ WithoutCache(heap) = call.other
        /\ \A l \in ListIds(heap) :
               /\ getLength(heap, l) = getLength(call.other, l)
               /\ getHead(heap, l) = getHead(call.other, l)
               /\ getTail(heap, l) = getTail(call.other, l)
               /\ isEmpty(heap, l) = isEmpty(call.other, l)
               /\ Contents(heap, l) = Contents(call.other, l)
               /\ toArray(heap, l).ret = toArray(call.other, l).ret
               /\ Chain(heap, l) = Chain(call.other, l)
               /\ ChainBack(heap, l) = ChainBack(call.other, l)
               /\ \A index \in Indexes(heap, l) :
                      /\ getNodeAt(heap, l, index) = getNodeAt(call.other, l, index)
                      /\ get(heap, l, index) = get(call.other, l, index)
        /\ \A n \in NodeIds(heap) : heap.nodes[n] = call.other.nodes[n]

\* Both heaps hold two lists and a removed node, and the class-node list holds a
\* cached array of two values, which the tuple-node list has no counterpart of.
C39_Witness ==
    /\ call.op = "pair"
    /\ Len(heap.lists) = 2 /\ Len(call.other.lists) = 2
    /\ heap.removed # {} /\ call.other.removed = heap.removed
    /\ \E l \in ListIds(heap) :
           /\ heap.lists[l].allValues # Undefined
           /\ Len(heap.lists[l].allValues[1]) = 2
           /\ call.other.lists[l].allValues = Undefined
           /\ toArray(call.other, l).ret = heap.lists[l].allValues[1]

====
